---- MODULE Spec2Model ----
(***************************************************************************)
(* A model of the List class of keystone (the per-list CRUD engine):        *)
(* access-controlled lookups, the hook pipeline of a write, and the         *)
(* nested-mutation coordination around a shared mutationState.              *)
(*                                                                          *)
(* Source: src/packages/oembed-adapters/views/preview.js (class List).      *)
(***************************************************************************)
EXTENDS Integers, Sequences, FiniteSets, TLC

(***************************************************************************)
(* Bounds of the model.                                                     *)
(***************************************************************************)
\* items the storage may hold before the request: ids 1..MaxStored
MaxStored == 2
\* write invocations (_nestedMutation frames) one request may start
MaxWrites == 3

\* ids of the items stored before the request
StoredIds == 1 .. MaxStored
\* every id of the model: the stored ones and one fresh id per write
ItemIds == 1 .. (MaxStored + MaxWrites)

(***************************************************************************)
(* Values of the model.                                                     *)
(***************************************************************************)
\* a key that the object does not have
ABSENT == "absent"
\* a key that is present and holds undefined
UNDEF == "undefined"
\* a key that holds null
NULL == "null"
\* what storage holds under an id that has no item
NoItem == [name |-> "none", slug |-> "none", author |-> "none"]


(***************************************************************************)
(* The list of the model: three fields in declaration order, the first two *)
(* required text fields, the third a required relationship field.          *)
(***************************************************************************)
FieldPaths == <<"name", "slug", "author">>
Fields == {"name", "slug", "author"}
isRequired(f) == f \in {"name", "slug", "author"}
isRelationship(f) == f = "author"

\* filter a sequence, keeping its order
RECURSIVE SelectPaths(_, _)
SelectPaths(s, keep) ==
  IF s = <<>> THEN <<>>
  ELSE IF Head(s) \in keep THEN <<Head(s)>> \o SelectPaths(Tail(s), keep)
       ELSE SelectPaths(Tail(s), keep)

\* opToType
opToType(operation) == IF operation = "read" THEN "query" ELSE "mutation"

\* gqlNames of the list, by entry point
gqlNames(entry) ==
  CASE entry = "createMutation" -> "createItem"
    [] entry = "createManyMutation" -> "createItems"
    [] entry = "updateMutation" -> "updateItem"
    [] entry = "updateManyMutation" -> "updateItems"
    [] entry = "deleteMutation" -> "deleteItem"
    [] entry = "deleteManyMutation" -> "deleteItems"
    [] entry = "itemQuery" -> "Item"
    [] entry = "listQuery" -> "allItems"
    [] entry = "listQueryMeta" -> "_allItemsMeta"

(***************************************************************************)
(* Errors.  One record shape for every outcome: data is the public         *)
(* payload, internalData the payload for the logs.                         *)
(***************************************************************************)
NoError ==
  [kind |-> "none",
   data |-> [type |-> "", target |-> "", restrictedFields |-> <<>>,
             messages |-> <<>>, operation |-> ""],
   internalData |-> [itemId |-> <<>>]]

\* _throwAccessDenied: the error it throws
AccessDeniedError(operation, target, itemId, restrictedFields) ==
  [kind |-> "AccessDeniedError",
   data |-> [type |-> opToType(operation), target |-> target,
             restrictedFields |-> restrictedFields,
             messages |-> <<>>, operation |-> ""],
   internalData |-> [itemId |-> itemId]]

\* _throwValidationFailure: the error it throws
ValidationFailureError(errors, operation) ==
  [kind |-> "ValidationFailureError",
   data |-> [type |-> "", target |-> "", restrictedFields |-> <<>>,
             messages |-> errors, operation |-> operation],
   internalData |-> [itemId |-> <<>>]]

\* a failure of the storage collaborator, propagated unchanged
StorageError ==
  [kind |-> "StorageError",
   data |-> [type |-> "", target |-> "", restrictedFields |-> <<>>,
             messages |-> <<>>, operation |-> ""],
   internalData |-> [itemId |-> <<>>]]

(***************************************************************************)
(* Access results.  tag "Allow" is `true`, tag "Deny" is a falsy result,   *)
(* tag "Filter" is a declarative where clause: id / id_not are 0 when the  *)
(* key is missing, has_in / has_not_in say whether id_in / id_not_in are   *)
(* present, name is "any" when the clause has no condition on the field.   *)
(***************************************************************************)
Access(tag, id, id_not, has_in, id_in, has_not_in, id_not_in, name) ==
  [tag |-> tag, id |-> id, id_not |-> id_not, has_in |-> has_in, id_in |-> id_in,
   has_not_in |-> has_not_in, id_not_in |-> id_not_in, name |-> name]

AllowAccess == Access("Allow", 0, 0, FALSE, {}, FALSE, {}, "any")
DenyAccess == Access("Deny", 0, 0, FALSE, {}, FALSE, {}, "any")
NoWhere == Access("Filter", 0, 0, FALSE, {}, FALSE, {}, "any")

\* the stored item `i` of storage `st` satisfies every condition of `where`
Matches(st, i, where) ==
  /\ st[i] # NoItem
  /\ where.id = 0 \/ where.id = i
  /\ where.id_not = 0 \/ where.id_not # i
  /\ ~where.has_in \/ i \in where.id_in
  /\ ~where.has_not_in \/ i \notin where.id_not_in
  /\ where.name = "any" \/ st[i].name = where.name

\* the elements of a set of ids as a sequence, in storage (id) order
RECURSIVE IdSeq(_)
IdSeq(S) ==
  IF S = {} THEN <<>>
  ELSE LET m == CHOOSE x \in S : \A y \in S : x <= y
       IN <<m>> \o IdSeq(S \ {m})

Range(s) == {s[k] : k \in 1 .. Len(s)}

\* ListAdapter.findById
findById(st, id) == IF st[id] # NoItem THEN id ELSE 0

\* ListAdapter.itemsQuery({ where, first }): first = 0 stands for no limit
itemsQuery(st, where, first) ==
  LET all == IdSeq({i \in ItemIds : Matches(st, i, where)})
  IN IF first > 0 /\ Len(all) > first THEN SubSeq(all, 1, first) ELSE all

\* unique: the distinct elements, in order of first occurrence
RECURSIVE unique(_)
unique(s) ==
  IF s = <<>> THEN <<>>
  ELSE LET r == unique(SubSeq(s, 1, Len(s) - 1))
       IN IF s[Len(s)] \in Range(r) THEN r ELSE Append(r, s[Len(s)])

(***************************************************************************)
(* Access-controlled lookups.  Each returns its value, the error it throws *)
(* (NoError when it returns) and the ListAdapter calls it made.            *)
(***************************************************************************)
AdapterCall(fn, where, first) == [fn |-> fn, where |-> where, first |-> first]

\* the mutant of getAccessControlledItem: a missing item is returned as null
GetAccessControlledItem_nullOnMissing(st, id, access, operation, gqlName) ==
  LET denied == AccessDeniedError(operation, gqlName, <<id>>, <<>>)
  IN IF access.tag = "Allow"
     THEN [item |-> findById(st, id), error |-> NoError,
           calls |-> <<AdapterCall("findById", [NoWhere EXCEPT !.id = id], 0)>>]
     ELSE IF \/ (access.id # 0 /\ access.id # id)
             \/ (access.id_not # 0 /\ access.id_not = id)
             \/ (access.has_in /\ id \notin access.id_in)
             \/ (access.has_not_in /\ id \in access.id_not_in)
     THEN [item |-> 0, error |-> denied, calls |-> <<>>]
     ELSE LET where == [access EXCEPT !.tag = "Filter", !.id = id]
              found == itemsQuery(st, where, 1)
          IN [item |-> IF found = <<>> THEN 0 ELSE found[1], error |-> NoError,
              calls |-> <<AdapterCall("itemsQuery", where, 1)>>]

\* a second mutant of getAccessControlledItem: under full access the item is
\* taken to exist and is not looked up
GetAccessControlledItem_trustsFullAccess(st, id, access, operation, gqlName) ==
  IF access.tag = "Allow"
  THEN [item |-> id, error |-> NoError, calls |-> <<>>]
  ELSE GetAccessControlledItem_nullOnMissing(st, id, access, operation, gqlName)

\* a third mutant of getAccessControlledItem: an id the filter's id keys
\* exclude is looked up all the same
GetAccessControlledItem_queriesExcluded(st, id, access, operation, gqlName) ==
  LET denied == AccessDeniedError(operation, gqlName, <<id>>, <<>>)
  IN IF access.tag = "Allow"
     THEN LET item == findById(st, id)
          IN [item |-> item, error |-> IF item = 0 THEN denied ELSE NoError,
              calls |-> <<AdapterCall("findById", [NoWhere EXCEPT !.id = id], 0)>>]
     ELSE LET where == [access EXCEPT !.tag = "Filter"]
              found == SelectSeq(itemsQuery(st, where, 0), LAMBDA i : i = id)
          IN [item |-> IF found = <<>> THEN 0 ELSE found[1],
              error |-> IF found = <<>> THEN denied ELSE NoError,
              calls |-> <<AdapterCall("itemsQuery", where, 0)>>]

\* getAccessControlledItem(id, access, { context, operation, gqlName })
GetAccessControlledItem(st, id, access, operation, gqlName) ==
  LET denied == AccessDeniedError(operation, gqlName, <<id>>, <<>>)
  IN IF access.tag = "Allow"
     THEN LET item == findById(st, id)
          IN [item |-> item, error |-> IF item = 0 THEN denied ELSE NoError,
              calls |-> <<AdapterCall("findById", [NoWhere EXCEPT !.id = id], 0)>>]
     ELSE IF \/ (access.id # 0 /\ access.id # id)
             \/ (access.id_not # 0 /\ access.id_not = id)
             \/ (access.has_in /\ id \notin access.id_in)
             \/ (access.has_not_in /\ id \in access.id_not_in)
     THEN [item |-> 0, error |-> denied, calls |-> <<>>]
     ELSE LET where == [access EXCEPT !.tag = "Filter", !.id = id]
              found == itemsQuery(st, where, 1)
          IN [item |-> IF found = <<>> THEN 0 ELSE found[1],
              error |-> IF found = <<>> THEN denied ELSE NoError,
              calls |-> <<AdapterCall("itemsQuery", where, 1)>>]

\* getAccessControlledItems(ids, access)
GetAccessControlledItems(st, ids, access) ==
  IF Len(ids) = 0 THEN [items |-> <<>>, calls |-> <<>>]
  ELSE
    LET uniqueIds == unique(ids)
        requested == Range(uniqueIds)
    IN IF access.tag = "Allow"
       THEN LET where == [NoWhere EXCEPT !.has_in = TRUE, !.id_in = requested]
            IN [items |-> itemsQuery(st, where, 0),
                calls |-> <<AdapterCall("itemsQuery", where, 0)>>]
       ELSE
         LET hasAllowed == access.id # 0 \/ access.has_in
             accessControlIdsAllowed ==
               (IF access.id # 0 THEN {access.id} ELSE {})
                 \cup (IF access.has_in THEN access.id_in ELSE {})
             id_in == IF hasAllowed THEN accessControlIdsAllowed \cap requested
                      ELSE requested
             hasDisallowed == access.id_not # 0 \/ access.has_not_in
             accessControlIdsDisallowed ==
               (IF access.id_not # 0 THEN {access.id_not} ELSE {})
                 \cup (IF access.has_not_in THEN access.id_not_in ELSE {})
             id_not_in == accessControlIdsDisallowed \cap requested
         IN IF \/ id_in = {}
               \/ (hasDisallowed /\ Cardinality(id_not_in) = Len(uniqueIds))
            THEN [items |-> <<>>, calls |-> <<>>]
            ELSE LET where == Access("Filter", 0, 0, TRUE, id_in, hasDisallowed,
                                     IF hasDisallowed THEN id_not_in ELSE {},
                                     access.name)
                 IN [items |-> itemsQuery(st, where, 0),
                     calls |-> <<AdapterCall("itemsQuery", where, 0)>>]

\* mergeWhereClause(args, access): the caller's where and the access filter
\* combined by logical AND.  Two conditions on one key that no item can
\* meet together give a where that matches nothing (an empty id_in); two
\* id_not conditions are kept as id_not and id_not_in.
mergeWhereClause(args, access) ==
  IF access.tag # "Filter" THEN args
  ELSE LET clash == \/ args.id # 0 /\ access.id # 0 /\ args.id # access.id
                    \/ args.name # "any" /\ access.name # "any" /\ args.name # access.name
           both_not == args.id_not # 0 /\ access.id_not # 0 /\ args.id_not # access.id_not
       IN Access("Filter",
                 IF access.id # 0 THEN access.id ELSE args.id,
                 IF access.id_not # 0 THEN access.id_not ELSE args.id_not,
                 access.has_in \/ args.has_in \/ clash,
                 IF clash THEN {}
                 ELSE IF access.has_in /\ args.has_in THEN access.id_in \cap args.id_in
                 ELSE IF access.has_in THEN access.id_in ELSE args.id_in,
                 access.has_not_in \/ args.has_not_in \/ both_not,
                 (IF access.has_not_in THEN access.id_not_in ELSE {})
                   \cup (IF args.has_not_in THEN args.id_not_in ELSE {})
                   \cup (IF both_not THEN {args.id_not} ELSE {}),
                 IF access.name # "any" THEN access.name ELSE args.name)

(***************************************************************************)
(* Input data.  An input object is a record over the field paths; a text   *)
(* field holds a text value, NULL, UNDEF or is ABSENT; the relationship    *)
(* field is ABSENT or holds nested operations ("ops"), which relationship  *)
(* resolution turns into a reference ("ref").                              *)
(***************************************************************************)
Data(name, slug, author) == [name |-> name, slug |-> slug, author |-> author]

\* the field paths an object has, in declaration order (_fieldsFromObject)
fieldsFromObject(obj) == SelectPaths(FieldPaths, {f \in Fields : obj[f] # ABSENT})

\* what the validators of one write would report if they were run: the
\* fields whose built-in validator adds an error, the fields whose user hook
\* adds one, and the messages the list-level hook adds
Verdict(builtin, user, list) == [builtin |-> builtin, user |-> user, list |-> list]
NoVerdict == Verdict({}, {}, <<>>)

\* a validation message: who reported it and about which path
Msg(by, path) == [by |-> by, path |-> path]

RECURSIVE MsgsOf(_, _)
MsgsOf(by, paths) ==
  IF paths = <<>> THEN <<>>
  ELSE <<Msg(by, Head(paths))>> \o MsgsOf(by, Tail(paths))

\* the mutant of requiredFailures: an update is checked as a create is
requiredFailures_updateAsCreate(resolvedData, operation) ==
  SelectPaths(FieldPaths,
    {f \in Fields :
       /\ isRequired(f)
       /\ ~isRelationship(f)
       /\ resolvedData[f] \in {ABSENT, UNDEF, NULL}})

\* the isRequired check of _validateInput: the failing fields, in order
requiredFailures(resolvedData, operation) ==
  SelectPaths(FieldPaths,
    {f \in Fields :
       /\ isRequired(f)
       /\ ~isRelationship(f)
       /\ \/ /\ operation = "create"
             /\ resolvedData[f] \in {ABSENT, UNDEF, NULL}
          \/ /\ operation = "update"
             /\ resolvedData[f] # ABSENT
             /\ resolvedData[f] \in {UNDEF, NULL}})

\* the mutant of _validateHook: throws the first collected error alone
validateHook_firstOnly(fields, verdict, operation) ==
  LET fieldValidationErrors ==
        MsgsOf("field", SelectPaths(fields, verdict.builtin))
          \o MsgsOf("fieldHook", SelectPaths(fields, verdict.user))
  IN IF fieldValidationErrors # <<>>
     THEN ValidationFailureError(<<fieldValidationErrors[1]>>, operation)
     ELSE IF verdict.list # <<>>
     THEN ValidationFailureError(<<Msg("listHook", verdict.list[1])>>, operation)
     ELSE NoError

\* _validateHook(args, fields, operation, hookName): the error it throws
validateHook(fields, verdict, operation) ==
  LET fieldValidationErrors ==
        MsgsOf("field", SelectPaths(fields, verdict.builtin))
          \o MsgsOf("fieldHook", SelectPaths(fields, verdict.user))
      listValidationErrors == MsgsOf("listHook", verdict.list)
  IN IF fieldValidationErrors # <<>>
     THEN ValidationFailureError(fieldValidationErrors, operation)
     ELSE IF listValidationErrors # <<>>
     THEN ValidationFailureError(listValidationErrors, operation)
     ELSE NoError

\* the mutant of _validateInput: the isRequired check reports one field only
validateInput_oneRequired(resolvedData, verdict, operation) ==
  LET fieldValidationErrors == MsgsOf("isRequired", requiredFailures(resolvedData, operation))
  IN IF fieldValidationErrors # <<>>
     THEN ValidationFailureError(<<fieldValidationErrors[1]>>, operation)
     ELSE validateHook(fieldsFromObject(resolvedData), verdict, operation)

\* _validateInput(resolvedData, existingItem, context, operation, originalInput)
validateInput(resolvedData, verdict, operation) ==
  LET fieldValidationErrors == MsgsOf("isRequired", requiredFailures(resolvedData, operation))
  IN IF fieldValidationErrors # <<>>
     THEN ValidationFailureError(fieldValidationErrors, operation)
     ELSE validateHook(fieldsFromObject(resolvedData), verdict, operation)

\* _validateDelete(existingItem, context, operation)
validateDelete(verdict, operation) == validateHook(FieldPaths, verdict, operation)

\* _resolveDefaults: no field of the model's list declares a default value
defaultValue(f) == UNDEF
resolveDefaults(data) ==
  [f \in Fields |-> IF data[f] = ABSENT /\ defaultValue(f) # UNDEF
                    THEN defaultValue(f) ELSE data[f]]

\* what a field's resolveInput returns: the value of its own path in the
\* data it was given ("keep"), undefined, or a value of its own
hookReturn(kind, resolvedData, f) ==
  IF kind = "keep" THEN resolvedData[f]
  ELSE IF kind = "undefined" THEN UNDEF ELSE kind

\* _mapToFields(fields, action): an object with one key per field of fields
mapToFields(fields, action) == [f \in Fields |-> IF f \in fields THEN action[f] ELSE ABSENT]

\* what the list-level resolveInput hook of the model returns for the data
\* it is given: the data itself ("same"), the data with slug set to null
\* ("clearSlug"), or an object holding nothing but a null slug ("onlySlug")
listHookReturn(lhook, resolvedData) ==
  IF lhook = "clearSlug" THEN [resolvedData EXCEPT !.slug = NULL]
  ELSE IF lhook = "onlySlug" THEN Data(ABSENT, NULL, ABSENT)
  ELSE resolvedData

\* the mutant of afterListHook: the returned object is merged into the data
afterListHook_merges(resolvedData, returned) ==
  [f \in Fields |-> IF returned[f] = ABSENT THEN resolvedData[f] ELSE returned[f]]

\* resolvedData = await this.hooks.resolveInput({ resolvedData, ...args })
afterListHook(resolvedData, returned) == returned

\* the steps of _resolveInput: the data after the fields' built-in
\* resolveInput, after the field user hooks (hooked: the fields declaring
\* one), what the list-level hook was given and returned, and the result
resolveInputSteps(resolvedData, builtin, hooked, hook, lhook) ==
  LET fields == {f \in Fields : resolvedData[f] # ABSENT}
      afterBuiltins ==
        mapToFields(fields, [f \in Fields |-> hookReturn(builtin[f], resolvedData, f)])
      hookResults ==
        mapToFields(fields \cap hooked,
                    [f \in Fields |-> hookReturn(hook[f], afterBuiltins, f)])
      afterFieldHooks ==
        [f \in Fields |-> IF hookResults[f] # ABSENT THEN hookResults[f]
                                                     ELSE afterBuiltins[f]]
      returned == listHookReturn(lhook, afterFieldHooks)
  IN [afterBuiltins |-> afterBuiltins, hookResults |-> hookResults,
      afterFieldHooks |-> afterFieldHooks,
      listGiven |-> IF lhook = "none" THEN Data(ABSENT, ABSENT, ABSENT) ELSE afterFieldHooks,
      returned |-> IF lhook = "none" THEN Data(ABSENT, ABSENT, ABSENT) ELSE returned,
      out |-> IF lhook = "none" THEN afterFieldHooks
              ELSE afterListHook(afterFieldHooks, returned)]

\* _resolveInput of the list of the model: the fields' built-in
\* resolveInput return the field's value, no field declares a user hook, and
\* the list-level hook, when the list declares it (rhook = "clearSlug"),
\* returns the data with slug set to null.
resolveInput(resolvedData, rhook) ==
  resolveInputSteps(resolvedData, [f \in Fields |-> "keep"], {},
                    [f \in Fields |-> "keep"], rhook).out

(***************************************************************************)
(* State.                                                                   *)
(***************************************************************************)
VARIABLES
  store,           \* the storage of the list: id -> stored item or NoItem
  req,             \* the request being served: entry point, inputs, outcome
  writes,          \* the _nestedMutation invocations of the request, in start order
  mutationStates,  \* the mutationState objects created, in creation order
  afterSeq,        \* the writes whose after hook was invoked, in invocation order
  probe            \* the last call of a pure helper: its inputs and its result

vars == <<store, req, writes, mutationStates, afterSeq, probe>>

\* an error thrown by a user hook of the beforeChange / beforeDelete phase
HookError ==
  [kind |-> "HookError",
   data |-> [type |-> "", target |-> "", restrictedFields |-> <<>>,
             messages |-> <<>>, operation |-> ""],
   internalData |-> [itemId |-> <<>>]]

\* the TypeError of Object.keys(null) in _fieldsFromObject
TypeError ==
  [kind |-> "TypeError",
   data |-> [type |-> "", target |-> "", restrictedFields |-> <<>>,
             messages |-> <<>>, operation |-> ""],
   internalData |-> [itemId |-> <<>>]]

\* an error raised by nested work and re-thrown by _mapToFields
NestedError ==
  [kind |-> "Error",
   data |-> [type |-> "", target |-> "", restrictedFields |-> <<>>,
             messages |-> <<>>, operation |-> ""],
   internalData |-> [itemId |-> <<>>]]

\* the input of one single-item write
WriteInput(data, nested, verdict, rhook) ==
  [data |-> data, nested |-> nested, verdict |-> verdict, rhook |-> rhook]

NoData == Data(ABSENT, ABSENT, ABSENT)

\* a fresh mutationState (_nestedMutation, lines 1236-1240)
\* queues: the backlink work queued on the state, as the writes it is of
NewMutationState(w) == [afterChangeStack |-> <<>>, queues |-> <<>>, createdBy |-> w]

\* the mutant of createLazyDeferred: the handle is born resolved
createLazyDeferred_resolved(kind) == IF kind = "create" THEN "resolved" ELSE "none"

\* createdPromise = createLazyDeferred() of _createSingle: the handle of the
\* item under creation; an update or a delete has none
createLazyDeferred(kind) == IF kind = "create" THEN "pending" ELSE "none"

\* the mutant of isRootMutation: every invocation sets up a fresh state
isRootMutation_always(mutationState) == TRUE

\* const isRootMutation = !mutationState   (0 stands for undefined)
isRootMutation(mutationState) == mutationState = 0

\* the mutant of constituentState: the constituents after the first join the
\* state the first one created
constituentState_shared(mutationState, k, mstates) ==
  IF mutationState = 0 /\ k > 1 THEN Len(mstates) ELSE mutationState

\* the mutationState a batch mutation hands its k-th constituent: its own
\* mutationState parameter
constituentState(mutationState, k, mstates) == mutationState

\* a write enters _nestedMutation: the write record and the mutationStates
beginWrite(kind, input, existingItem, id, parent, mutationState, ws, mstates) ==
  LET w == Len(ws) + 1
      root == isRootMutation(mutationState)
      ms == IF root THEN Len(mstates) + 1 ELSE mutationState
  IN [writes |-> Append(ws,
        [kind |-> kind, parent |-> parent, isRootMutation |-> root, ms |-> ms,
         pc |-> IF kind = "delete" THEN "registerBacklinks" ELSE "resolveRelationship",
         steps |-> <<>>,
         data |-> input.data, resolvedData |-> input.data,
         existingItem |-> existingItem, id |-> id,
         nested |-> IF input.data.author = ABSENT THEN 0 ELSE input.nested,
         verdict |-> input.verdict, rhook |-> input.rhook,
         persisted |-> FALSE, failedOps |-> 0, result |-> 0, error |-> NoError,
         handle |-> createLazyDeferred(kind),
         backlink |-> IF parent # 0 /\ ws[parent].kind = "create" THEN "waiting" ELSE "none",
         backref |-> 0, registered |-> "none", hookInputs |-> <<>>]),
      mstates |-> IF root THEN Append(mstates, NewMutationState(w)) ELSE mstates]

\* the mutant of checkListAccess: a denied access is returned, not thrown
checkListAccess_noThrow(access, operation, gqlName, itemId) == NoError

\* checkListAccess(context, operation, { gqlName, ...extraInternalData })
checkListAccess(access, operation, gqlName, itemId) ==
  IF access.tag = "Deny" THEN AccessDeniedError(operation, gqlName, itemId, <<>>)
  ELSE NoError

\* the restricted fields checkFieldAccess collects for one item
restrictedOf(data, deniedFields) ==
  SelectPaths(FieldPaths, {f \in Fields : data[f] # ABSENT /\ f \in deniedFields})

RECURSIVE restrictedFields(_, _)
restrictedFields(datas, deniedFields) ==
  IF datas = <<>> THEN <<>>
  ELSE restrictedOf(Head(datas), deniedFields) \o restrictedFields(Tail(datas), deniedFields)

\* checkFieldAccess(operation, itemsToUpdate, context, { gqlName, extraData })
checkFieldAccess(operation, datas, deniedFields, gqlName, itemId) ==
  LET restricted == restrictedFields(datas, deniedFields)
  IN IF restricted # <<>> THEN AccessDeniedError(operation, gqlName, itemId, restricted)
     ELSE NoError

\* before: the storage as it was when the entry point was called;
\* inputs: the data objects of the request, in the order of its items
NoRequest ==
  [entry |-> "none", status |-> "none", access |-> AllowAccess, id |-> 0, ids |-> <<>>,
   deniedFields |-> {}, error |-> NoError, calls |-> <<>>, found |-> <<>>,
   roots |-> <<>>, result |-> <<>>, before |-> <<>>, inputs |-> <<>>]

Init ==
  /\ store \in {[i \in ItemIds |->
                   IF i \in present
                   THEN Data(IF i % 2 = 1 THEN "a" ELSE "b", "a", ABSENT)
                   ELSE NoItem] : present \in SUBSET StoredIds}
  /\ req = NoRequest
  /\ writes = <<>>
  /\ mutationStates = <<>>
  /\ afterSeq = <<>>
  /\ probe = [fn |-> "none"]

(***************************************************************************)
(* Inputs of the requests.                                                  *)
(***************************************************************************)
\* the list access results a request is served under
ReqAccess ==
  {DenyAccess, AllowAccess,
   Access("Filter", 0, 0, TRUE, {1}, FALSE, {}, "any"),
   Access("Filter", 0, 1, FALSE, {}, FALSE, {}, "any"),
   Access("Filter", 0, 0, FALSE, {}, FALSE, {}, "a")}

\* the sets of field paths whose field-level access is denied
DeniedFieldSets == {{}, {"name"}}

TextInputs == {ABSENT, UNDEF, NULL, "a"}

Verdicts ==
  {NoVerdict,
   Verdict({"name"}, {}, <<>>),
   Verdict({}, {"slug"}, <<"l1">>),
   Verdict({}, {}, <<"l1", "l2">>)}

\* inputs of a write started by an entry point
RootInputs ==
  {WriteInput(Data(n, s, ABSENT), 0, v, h) :
     n \in TextInputs, s \in TextInputs, v \in Verdicts, h \in {"none", "clearSlug"}}
  \cup
  {WriteInput(Data(n, "a", "ops"), k, NoVerdict, "none") :
     n \in {"a", NULL}, k \in 0 .. (MaxWrites - 1)}

\* inputs of a nested create and of the constituents of a batch
SmallInputs ==
  {WriteInput(Data(n, "a", a), IF a = ABSENT THEN 0 ELSE 1, NoVerdict, "none") :
     n \in {"a", NULL}, a \in {ABSENT, "ops"}}

RECURSIVE SeqsUpTo(_, _)
SeqsUpTo(S, n) ==
  IF n = 0 THEN {<<>>}
  ELSE LET shorter == SeqsUpTo(S, n - 1)
       IN shorter \cup {Append(q, x) : q \in {t \in shorter : Len(t) = n - 1}, x \in S}

RECURSIVE SumNested(_)
SumNested(ws) == IF ws = <<>> THEN 0 ELSE Head(ws).nested + SumNested(Tail(ws))

\* the writes started and those the inputs still ask for
Planned(ws) == Len(ws) + SumNested(ws)

RECURSIVE SumInputs(_)
SumInputs(inputs) ==
  IF inputs = <<>> THEN 0
  ELSE 1 + (IF Head(inputs).data.author = ABSENT THEN 0 ELSE Head(inputs).nested)
         + SumInputs(Tail(inputs))

Failed(r, error, calls) == [r EXCEPT !.status = "failed", !.error = error, !.calls = calls]

\* the constituents of a batch enter _nestedMutation one after the other
RECURSIVE beginAll(_, _, _, _, _, _)
beginAll(kind, items, k, mutationState, ws, mstates) ==
  IF k > Len(items) THEN [writes |-> ws, mstates |-> mstates]
  ELSE LET b == beginWrite(kind, items[k].input, items[k].existingItem, items[k].id, 0,
                           constituentState(mutationState, k, mstates), ws, mstates)
       IN beginAll(kind, items, k + 1, mutationState, b.writes, b.mstates)

\* zipObj({ existingItem: existingItems, id: ids, data }): one entry per
\* element of the first array, the k-th of each array together
zipObj(existingItems, ids, inputs) ==
  [k \in 1 .. Len(existingItems) |->
     [existingItem |-> existingItems[k],
      id |-> IF k <= Len(ids) THEN ids[k] ELSE 0,
      input |-> IF k <= Len(inputs) THEN inputs[k] ELSE WriteInput(NoData, 0, NoVerdict, "none")]]

(***************************************************************************)
(* Entry points.                                                            *)
(***************************************************************************)
\* createMutation(data, context) called by the transport
createMutation(access, deniedFields, input) ==
  /\ req.entry = "none"
  /\ LET gqlName == gqlNames("createMutation")
         r == [NoRequest EXCEPT !.entry = "createMutation", !.before = store, !.access = access,
                                !.deniedFields = deniedFields, !.inputs = <<input.data>>]
         denied == checkListAccess(access, "create", gqlName, <<>>)
         restricted == checkFieldAccess("create", <<input.data>>, deniedFields, gqlName, <<>>)
         b == beginWrite("create", input, 0, 0, 0, 0, writes, mutationStates)
     IN IF denied.kind # "none"
        THEN req' = Failed(r, denied, <<>>) /\ UNCHANGED <<writes, mutationStates>>
        ELSE IF restricted.kind # "none"
        THEN req' = Failed(r, restricted, <<>>) /\ UNCHANGED <<writes, mutationStates>>
        ELSE /\ req' = [r EXCEPT !.status = "running", !.roots = <<1>>]
             /\ writes' = b.writes
             /\ mutationStates' = b.mstates
  /\ UNCHANGED <<store, afterSeq, probe>>

\* createManyMutation(data, context) called by the transport
createManyMutation(access, deniedFields, inputs) ==
  /\ req.entry = "none"
  /\ LET gqlName == gqlNames("createManyMutation")
         r == [NoRequest EXCEPT !.entry = "createManyMutation", !.before = store, !.access = access,
                                !.deniedFields = deniedFields,
                                !.inputs = [k \in 1 .. Len(inputs) |-> inputs[k].data]]
         denied == checkListAccess(access, "create", gqlName, <<>>)
         restricted == checkFieldAccess("create", [k \in 1 .. Len(inputs) |-> inputs[k].data],
                                        deniedFields, gqlName, <<>>)
         items == [k \in 1 .. Len(inputs) |->
                     [existingItem |-> 0, id |-> 0, input |-> inputs[k]]]
         b == beginAll("create", items, 1, 0, writes, mutationStates)
     IN IF denied.kind # "none"
        THEN req' = Failed(r, denied, <<>>) /\ UNCHANGED <<writes, mutationStates>>
        ELSE IF restricted.kind # "none"
        THEN req' = Failed(r, restricted, <<>>) /\ UNCHANGED <<writes, mutationStates>>
        ELSE /\ req' = [r EXCEPT !.status = "running",
                                 !.roots = [k \in 1 .. Len(inputs) |-> k]]
             /\ writes' = b.writes
             /\ mutationStates' = b.mstates
  /\ UNCHANGED <<store, afterSeq, probe>>

\* updateMutation(id, data, context) called by the transport
updateMutation(access, deniedFields, id, input) ==
  /\ req.entry = "none"
  /\ LET gqlName == gqlNames("updateMutation")
         r == [NoRequest EXCEPT !.entry = "updateMutation", !.before = store, !.access = access,
                                !.deniedFields = deniedFields, !.id = id,
                                !.inputs = <<input.data>>]
         denied == checkListAccess(access, "update", gqlName, <<id>>)
         lookup == GetAccessControlledItem(store, id, access, "update", gqlName)
         restricted == checkFieldAccess("update", <<input.data>>, deniedFields, gqlName, <<id>>)
         b == beginWrite("update", input, lookup.item, id, 0, 0, writes, mutationStates)
     IN IF denied.kind # "none"
        THEN req' = Failed(r, denied, <<>>) /\ UNCHANGED <<writes, mutationStates>>
        ELSE IF lookup.error.kind # "none"
        THEN req' = Failed(r, lookup.error, lookup.calls) /\ UNCHANGED <<writes, mutationStates>>
        ELSE IF restricted.kind # "none"
        THEN req' = Failed(r, restricted, lookup.calls) /\ UNCHANGED <<writes, mutationStates>>
        ELSE /\ req' = [r EXCEPT !.status = "running", !.roots = <<1>>,
                                 !.calls = lookup.calls, !.found = <<lookup.item>>]
             /\ writes' = b.writes
             /\ mutationStates' = b.mstates
  /\ UNCHANGED <<store, afterSeq, probe>>

\* updateManyMutation(data, context) called by the transport
updateManyMutation(access, deniedFields, ids, inputs) ==
  /\ req.entry = "none"
  /\ Len(ids) = Len(inputs)
  /\ LET gqlName == gqlNames("updateManyMutation")
         r == [NoRequest EXCEPT !.entry = "updateManyMutation", !.before = store, !.access = access,
                                !.deniedFields = deniedFields, !.ids = ids,
                                !.inputs = [k \in 1 .. Len(inputs) |-> inputs[k].data]]
         denied == checkListAccess(access, "update", gqlName, ids)
         lookup == GetAccessControlledItems(store, ids, access)
         itemsToUpdate == zipObj(lookup.items, ids, inputs)
         restricted == checkFieldAccess("update",
                         [k \in 1 .. Len(itemsToUpdate) |-> itemsToUpdate[k].input.data],
                         deniedFields, gqlName, ids)
         b == beginAll("update", itemsToUpdate, 1, 0, writes, mutationStates)
     IN IF denied.kind # "none"
        THEN req' = Failed(r, denied, <<>>) /\ UNCHANGED <<writes, mutationStates>>
        ELSE IF restricted.kind # "none"
        THEN req' = Failed(r, restricted, lookup.calls) /\ UNCHANGED <<writes, mutationStates>>
        ELSE /\ req' = [r EXCEPT !.status = "running", !.calls = lookup.calls,
                                 !.found = lookup.items,
                                 !.roots = [k \in 1 .. Len(itemsToUpdate) |-> k]]
             /\ writes' = b.writes
             /\ mutationStates' = b.mstates
  /\ UNCHANGED <<store, afterSeq, probe>>

\* deleteMutation(id, context) called by the transport
deleteMutation(access, id, verdict) ==
  /\ req.entry = "none"
  /\ LET gqlName == gqlNames("deleteMutation")
         r == [NoRequest EXCEPT !.entry = "deleteMutation", !.before = store, !.access = access, !.id = id]
         denied == checkListAccess(access, "delete", gqlName, <<id>>)
         lookup == GetAccessControlledItem(store, id, access, "delete", gqlName)
         b == beginWrite("delete", WriteInput(NoData, 0, verdict, "none"), lookup.item,
                         lookup.item, 0, 0, writes, mutationStates)
     IN IF denied.kind # "none"
        THEN req' = Failed(r, denied, <<>>) /\ UNCHANGED <<writes, mutationStates>>
        ELSE IF lookup.error.kind # "none"
        THEN req' = Failed(r, lookup.error, lookup.calls) /\ UNCHANGED <<writes, mutationStates>>
        ELSE /\ req' = [r EXCEPT !.status = "running", !.roots = <<1>>,
                                 !.calls = lookup.calls, !.found = <<lookup.item>>]
             /\ writes' = b.writes
             /\ mutationStates' = b.mstates
  /\ UNCHANGED <<store, afterSeq, probe>>

\* deleteManyMutation(ids, context) called by the transport
deleteManyMutation(access, ids, verdict) ==
  /\ req.entry = "none"
  /\ LET gqlName == gqlNames("deleteManyMutation")
         r == [NoRequest EXCEPT !.entry = "deleteManyMutation", !.before = store, !.access = access, !.ids = ids]
         denied == checkListAccess(access, "delete", gqlName, ids)
         lookup == GetAccessControlledItems(store, ids, access)
         items == [k \in 1 .. Len(lookup.items) |->
                     [existingItem |-> lookup.items[k], id |-> lookup.items[k],
                      input |-> WriteInput(NoData, 0, verdict, "none")]]
         b == beginAll("delete", items, 1, 0, writes, mutationStates)
     IN IF denied.kind # "none"
        THEN req' = Failed(r, denied, <<>>) /\ UNCHANGED <<writes, mutationStates>>
        ELSE /\ req' = [r EXCEPT !.status = "running", !.calls = lookup.calls,
                                 !.found = lookup.items,
                                 !.roots = [k \in 1 .. Len(items) |-> k]]
             /\ writes' = b.writes
             /\ mutationStates' = b.mstates
  /\ UNCHANGED <<store, afterSeq, probe>>

\* itemQuery({ where: { id } }, context, gqlName)
itemQuery(access, id) ==
  /\ req.entry = "none"
  /\ LET gqlName == gqlNames("itemQuery")
         r == [NoRequest EXCEPT !.entry = "itemQuery", !.before = store, !.access = access, !.id = id]
         denied == checkListAccess(access, "read", gqlName, <<id>>)
         lookup == GetAccessControlledItem(store, id, access, "read", gqlName)
     IN IF denied.kind # "none"
        THEN req' = Failed(r, denied, <<>>)
        ELSE IF lookup.error.kind # "none"
        THEN req' = Failed(r, lookup.error, lookup.calls)
        ELSE req' = [r EXCEPT !.status = "returned", !.calls = lookup.calls,
                              !.found = <<lookup.item>>, !.result = <<lookup.item>>]
  /\ UNCHANGED <<store, writes, mutationStates, afterSeq, probe>>

\* listQuery(args, context, queryName): checkListAccess is handed
\* { queryName }, so the gqlName it reads is undefined
listQuery(access, args) ==
  /\ req.entry = "none"
  /\ LET r == [NoRequest EXCEPT !.entry = "listQuery", !.before = store, !.access = access]
         denied == checkListAccess(access, "read", "undefined", <<>>)
         where == mergeWhereClause(args, access)
         items == itemsQuery(store, where, 0)
     IN IF denied.kind # "none"
        THEN req' = Failed(r, denied, <<>>)
        ELSE req' = [r EXCEPT !.status = "returned", !.found = items, !.result = items,
                              !.calls = <<AdapterCall("itemsQuery", where, 0)>>]
  /\ UNCHANGED <<store, writes, mutationStates, afterSeq, probe>>

\* listQueryMeta(args, context, queryName) and the getCount it returns
listQueryMeta(access, args) ==
  /\ req.entry = "none"
  /\ LET r == [NoRequest EXCEPT !.entry = "listQueryMeta", !.before = store, !.access = access]
         denied == checkListAccess(access, "read", "undefined", <<>>)
         where == mergeWhereClause(args, access)
         count == Len(itemsQuery(store, where, 0))
     IN IF denied.kind # "none"
        THEN req' = Failed(r, denied, <<>>)
        ELSE req' = [r EXCEPT !.status = "returned", !.result = <<count>>,
                              !.calls = <<AdapterCall("itemsQueryMeta", where, 0)>>]
  /\ UNCHANGED <<store, writes, mutationStates, afterSeq, probe>>

(***************************************************************************)
(* The steps of one write: the mutation function _createSingle,            *)
(* _updateSingle or _deleteSingle hands _nestedMutation, then the rest of  *)
(* _nestedMutation.                                                         *)
(***************************************************************************)
Started == 1 .. Len(writes)
Children(p) == {c \in Started : writes[c].parent = p}
Settled(w) == writes[w].pc \in {"done", "failed"}

\* the values handed to a hook function: an object, a string, an item
JsObject(d) == [tag |-> "object", data |-> d, text |-> "", item |-> 0]
JsString(t) == [tag |-> "string", data |-> NoData, text |-> t, item |-> 0]
JsItem(i) == [tag |-> "item", data |-> NoData, text |-> "", item |-> i]

\* the arguments _createSingle and _updateSingle hand to _resolveInput,
\* _validateInput and _beforeChange, by position: (resolvedData,
\* existingItem, context, operation, data)
changeCall(wr) ==
  <<JsObject(wr.resolvedData), JsItem(wr.existingItem), JsString("context"),
    JsString(wr.kind), JsObject(wr.data)>>

\* the arguments their afterHook closure hands to _afterChange: (newItem,
\* existingItem, context, operation, data)
afterChangeCall(wr) ==
  <<JsItem(wr.result), JsItem(wr.existingItem), JsString("context"),
    JsString(wr.kind), JsObject(wr.data)>>

\* the originalInput of the args each function builds for its hooks, from
\* its parameter list:
\* _resolveInput(resolvedData, existingItem, context, operation, originalInput)
resolveInputArgs(call) == [hook |-> "resolveInput", originalInput |-> call[5]]
\* _validateInput(resolvedData, existingItem, context, operation, originalInput)
validateInputArgs(call) == [hook |-> "validateInput", originalInput |-> call[5]]
\* _beforeChange(resolvedData, existingItem, context, originalInput)
beforeChangeArgs(call) == [hook |-> "beforeChange", originalInput |-> call[4]]
\* _afterChange(updatedItem, existingItem, context, originalInput)
afterChangeArgs(call) == [hook |-> "afterChange", originalInput |-> call[4]]

\* the hook arguments a step of a create or update builds, if it builds any
hookInputsOf(wr, step) ==
  IF wr.kind = "delete" THEN <<>>
  ELSE IF step = "resolveInput" THEN <<resolveInputArgs(changeCall(wr))>>
  ELSE IF step = "validateInput" THEN <<validateInputArgs(changeCall(wr))>>
  ELSE IF step = "beforeChange" THEN <<beforeChangeArgs(changeCall(wr))>>
  ELSE IF step = "afterChange" THEN <<afterChangeArgs(afterChangeCall(wr))>>
  ELSE <<>>

Advance(w, step, pc) ==
  [writes EXCEPT ![w].steps = Append(@, step), ![w].pc = pc,
                 ![w].hookInputs = @ \o hookInputsOf(writes[w], step)]

Throw(w, step, error) ==
  [writes EXCEPT ![w].steps = Append(@, step), ![w].pc = "failed", ![w].error = error,
                 ![w].hookInputs = @ \o hookInputsOf(writes[w], step)]

\* field.resolveNestedOperations of the relationship field: one nested
\* create of the input calls createMutation(data, context, mutationState)
\* of the related list with the mutationState of the write it belongs to
ResolveNestedOperations(p, input) ==
  /\ p \in Started
  /\ writes[p].pc = "resolveRelationship"
  /\ writes[p].nested > 0
  /\ Len(writes) < MaxWrites
  /\ Planned(writes) + (IF input.data.author = ABSENT THEN 0 ELSE input.nested) <= MaxWrites
  /\ LET gqlName == gqlNames("createMutation")
         denied == checkListAccess(req.access, "create", gqlName, <<>>)
         restricted == checkFieldAccess("create", <<input.data>>, req.deniedFields, gqlName, <<>>)
         ws == [writes EXCEPT ![p].nested = @ - 1]
         b == beginWrite("create", input, 0, 0, p, writes[p].ms, ws, mutationStates)
     IN IF denied.kind # "none" \/ restricted.kind # "none"
        THEN /\ writes' = [ws EXCEPT ![p].failedOps = @ + 1]
             /\ UNCHANGED mutationStates
        ELSE /\ writes' = b.writes
             /\ mutationStates' = b.mstates
  /\ UNCHANGED <<store, req, afterSeq, probe>>

\* _resolveRelationship (after _resolveDefaults in a create): completes
\* when every nested operation of the write has settled
ResolveRelationship(w) ==
  /\ w \in Started
  /\ writes[w].pc = "resolveRelationship"
  /\ writes[w].nested = 0
  /\ \A c \in Children(w) : Settled(c)
  /\ LET defaulted == IF writes[w].kind = "create" THEN resolveDefaults(writes[w].data)
                      ELSE writes[w].data
         resolved == [defaulted EXCEPT !.author = IF @ = ABSENT THEN ABSENT ELSE "ref"]
     IN IF writes[w].failedOps > 0 \/ \E c \in Children(w) : writes[c].pc = "failed"
        THEN writes' = Throw(w, "resolveRelationship", NestedError)
        ELSE writes' = [Advance(w, "resolveRelationship", "resolveInput")
                          EXCEPT ![w].resolvedData = resolved]
  /\ UNCHANGED <<store, req, mutationStates, afterSeq, probe>>

\* the mutant of ResolveInput: the write goes on to _beforeChange
ResolveInput_skipsValidation(w) ==
  /\ w \in Started
  /\ writes[w].pc = "resolveInput"
  /\ writes' = [Advance(w, "resolveInput", "beforeChange")
                  EXCEPT ![w].resolvedData = resolveInput(@, writes[w].rhook)]
  /\ UNCHANGED <<store, req, mutationStates, afterSeq, probe>>

\* _resolveInput
ResolveInput(w) ==
  /\ w \in Started
  /\ writes[w].pc = "resolveInput"
  /\ writes' = [Advance(w, "resolveInput", "validateInput")
                  EXCEPT ![w].resolvedData = resolveInput(@, writes[w].rhook)]
  /\ UNCHANGED <<store, req, mutationStates, afterSeq, probe>>

\* the mutant of ValidateInput: a failed validation removes from storage
\* the items the nested writes of w created
ValidateInput_compensates(w) ==
  /\ w \in Started
  /\ writes[w].pc = "validateInput"
  /\ LET error == validateInput(writes[w].resolvedData, writes[w].verdict, writes[w].kind)
     IN IF error.kind # "none"
        THEN /\ writes' = Throw(w, "validateInput", error)
             /\ store' = [i \in ItemIds |->
                            IF \E c \in Children(w) : writes[c].result = i
                            THEN NoItem ELSE store[i]]
        ELSE /\ writes' = Advance(w, "validateInput", "beforeChange")
             /\ UNCHANGED store
  /\ UNCHANGED <<req, mutationStates, afterSeq, probe>>

\* _validateInput
ValidateInput(w) ==
  /\ w \in Started
  /\ writes[w].pc = "validateInput"
  /\ LET error == validateInput(writes[w].resolvedData, writes[w].verdict, writes[w].kind)
     IN IF error.kind # "none"
        THEN writes' = Throw(w, "validateInput", error)
        ELSE writes' = Advance(w, "validateInput", "beforeChange")
  /\ UNCHANGED <<store, req, mutationStates, afterSeq, probe>>

\* _beforeChange
BeforeChange(w) ==
  /\ w \in Started
  /\ writes[w].pc = "beforeChange"
  /\ \/ writes' = Advance(w, "beforeChange", "persist")
     \/ writes' = Throw(w, "beforeChange", HookError)
  /\ UNCHANGED <<store, req, mutationStates, afterSeq, probe>>

\* the id storage gives a created item: an id no item has had and no
\* request can name (the ids a request names are StoredIds)
FreshId(st) ==
  CHOOSE i \in ItemIds \ StoredIds :
    /\ st[i] = NoItem
    /\ \A j \in ItemIds \ StoredIds : st[j] = NoItem => i <= j

\* the nested operations of w that wait for the item w is creating
Waiting(ws, w) ==
  {c \in 1 .. Len(ws) : ws[c].parent = w /\ ws[c].backlink = "waiting" /\ ws[c].pc = "done"}

\* the mutant of resolveCreated: the write goes on without the tick, the
\* handlers waiting for the item have not run
resolveCreated_noTick(ws, w, newItem) ==
  [ws EXCEPT ![w].handle = "resolved", ![w].persisted = TRUE, ![w].result = newItem,
             ![w].steps = Append(@, "persist"), ![w].pc = "resolveBacklinks"]

\* createdPromise.resolve(newItem) and the tick that follows it: the
\* handlers waiting for the item run and queue their backlink work
resolveCreated(ws, w, newItem) ==
  [c \in 1 .. Len(ws) |->
     IF c = w THEN [ws[c] EXCEPT !.handle = "resolved", !.persisted = TRUE, !.result = newItem,
                                 !.steps = Append(@, "persist"), !.pc = "resolveBacklinks"]
     ELSE IF c \in Waiting(ws, w) THEN [ws[c] EXCEPT !.backlink = "queued"]
     ELSE ws[c]]

\* the mutant of rejectCreated: the storage error is swallowed and the
\* write goes on without an item
rejectCreated_swallows(ws, w, error) ==
  [ws EXCEPT ![w].handle = "rejected", ![w].steps = Append(@, "persist"),
             ![w].pc = "resolveBacklinks"]

\* the catch of _createSingle: createdPromise.reject(error), the handlers
\* waiting for the item fail, and the error is thrown again
rejectCreated(ws, w, error) ==
  [c \in 1 .. Len(ws) |->
     IF c = w THEN [ws[c] EXCEPT !.handle = "rejected", !.error = error,
                                 !.steps = Append(@, "persist"), !.pc = "failed"]
     ELSE IF c \in Waiting(ws, w) THEN [ws[c] EXCEPT !.backlink = "failed"]
     ELSE ws[c]]

\* adapter.create(resolvedData) in _createSingle: it returns the created
\* item and createdPromise resolves, or it throws, createdPromise rejects
\* and the error is thrown again
AdapterCreate(w) ==
  /\ w \in Started
  /\ writes[w].pc = "persist"
  /\ writes[w].kind = "create"
  /\ \/ /\ store' = [store EXCEPT ![FreshId(store)] = writes[w].resolvedData]
        /\ writes' = resolveCreated(writes, w, FreshId(store))
        /\ mutationStates' = [mutationStates EXCEPT ![writes[w].ms].queues =
                                @ \o IdSeq(Waiting(writes, w))]
     \/ /\ writes' = rejectCreated(writes, w, StorageError)
        /\ UNCHANGED <<store, mutationStates>>
  /\ UNCHANGED <<req, afterSeq, probe>>

\* the item adapter.update leaves in storage: the keys of the data replace
\* those of the stored item
Updated(item, data) == [f \in Fields |-> IF data[f] # ABSENT THEN data[f] ELSE item[f]]

\* adapter.update(id, resolvedData) in _updateSingle
AdapterUpdate(w) ==
  /\ w \in Started
  /\ writes[w].pc = "persist"
  /\ writes[w].kind = "update"
  /\ \/ /\ writes[w].id # 0
        /\ store[writes[w].id] # NoItem
        /\ store' = [store EXCEPT ![writes[w].id] = Updated(@, writes[w].resolvedData)]
        /\ writes' = [Advance(w, "persist", "resolveBacklinks")
                        EXCEPT ![w].persisted = TRUE, ![w].result = writes[w].id]
     \/ /\ writes[w].id = 0 \/ store[writes[w].id] = NoItem
        /\ writes' = [Advance(w, "persist", "resolveBacklinks") EXCEPT ![w].persisted = TRUE]
        /\ UNCHANGED store
     \/ /\ writes' = Throw(w, "persist", StorageError)
        /\ UNCHANGED store
  /\ UNCHANGED <<req, mutationStates, afterSeq, probe>>

\* the mutant of RegisterBacklinks: the backlink work is done on the spot
RegisterBacklinks_inline(w) ==
  /\ w \in Started
  /\ writes[w].pc = "registerBacklinks"
  /\ writes' = [Advance(w, "registerBacklinks", "validateDelete")
                  EXCEPT ![w].registered = "flushed"]
  /\ UNCHANGED <<store, req, mutationStates, afterSeq, probe>>

\* _registerBacklinks in _deleteSingle: field.registerBacklink of the
\* relationship field queues its work on the mutationState
RegisterBacklinks(w) ==
  /\ w \in Started
  /\ writes[w].pc = "registerBacklinks"
  /\ writes' = [Advance(w, "registerBacklinks", "validateDelete")
                  EXCEPT ![w].registered = "queued"]
  /\ mutationStates' = [mutationStates EXCEPT ![writes[w].ms].queues = Append(@, w)]
  /\ UNCHANGED <<store, req, afterSeq, probe>>

\* the mutant of ValidateDelete: a failed validation does not stop the delete
ValidateDelete_goesOn(w) ==
  /\ w \in Started
  /\ writes[w].pc = "validateDelete"
  /\ writes' = Advance(w, "validateDelete", "beforeDelete")
  /\ UNCHANGED <<store, req, mutationStates, afterSeq, probe>>

\* _validateDelete
ValidateDelete(w) ==
  /\ w \in Started
  /\ writes[w].pc = "validateDelete"
  /\ LET error == validateDelete(writes[w].verdict, "delete")
     IN IF error.kind # "none"
        THEN writes' = Throw(w, "validateDelete", error)
        ELSE writes' = Advance(w, "validateDelete", "beforeDelete")
  /\ UNCHANGED <<store, req, mutationStates, afterSeq, probe>>

\* _beforeDelete
BeforeDelete(w) ==
  /\ w \in Started
  /\ writes[w].pc = "beforeDelete"
  /\ \/ writes' = Advance(w, "beforeDelete", "persist")
     \/ writes' = Throw(w, "beforeDelete", HookError)
  /\ UNCHANGED <<store, req, mutationStates, afterSeq, probe>>

\* adapter.delete(existingItem.id) in _deleteSingle
AdapterDelete(w) ==
  /\ w \in Started
  /\ writes[w].pc = "persist"
  /\ writes[w].kind = "delete"
  /\ \/ /\ store[writes[w].existingItem] # NoItem
        /\ store' = [store EXCEPT ![writes[w].existingItem] = NoItem]
        /\ writes' = [Advance(w, "persist", "resolveBacklinks")
                        EXCEPT ![w].persisted = TRUE, ![w].result = writes[w].existingItem]
     \/ /\ store[writes[w].existingItem] = NoItem
        /\ writes' = [Advance(w, "persist", "resolveBacklinks") EXCEPT ![w].persisted = TRUE]
        /\ UNCHANGED store
     \/ /\ writes' = Throw(w, "persist", StorageError)
        /\ UNCHANGED store
  /\ UNCHANGED <<req, mutationStates, afterSeq, probe>>

\* the mutant of flushesBacklinks: only the root resolves the backlinks
flushesBacklinks_rootOnly(root) == root

\* _nestedMutation, line 1247: Relationship.resolveBacklinks is awaited by
\* every invocation, whether it is the root or not
flushesBacklinks(root) == TRUE

\* Relationship.resolveBacklinks(context, mutationState): the queued work is
\* performed with the item it waited for, and leaves the queue
resolveBacklinks(ws, queue) ==
  [c \in 1 .. Len(ws) |->
     IF c \in Range(queue) /\ ws[c].registered = "queued"
     THEN [ws[c] EXCEPT !.registered = "flushed"]
     ELSE IF c \in Range(queue)
     THEN [ws[c] EXCEPT !.backlink = "flushed", !.backref = ws[ws[c].parent].result]
     ELSE ws[c]]

\* await Relationship.resolveBacklinks(context, mutationState)
ResolveBacklinks(w) ==
  /\ w \in Started
  /\ writes[w].pc = "resolveBacklinks"
  /\ IF flushesBacklinks(writes[w].isRootMutation)
     THEN /\ writes' = resolveBacklinks(Advance(w, "resolveBacklinks", "push"),
                                        mutationStates[writes[w].ms].queues)
          /\ mutationStates' = [mutationStates EXCEPT ![writes[w].ms].queues = <<>>]
     ELSE /\ writes' = [writes EXCEPT ![w].pc = "push"]
          /\ UNCHANGED mutationStates
  /\ UNCHANGED <<store, req, afterSeq, probe>>

\* the mutant of pushAfterHook: the callback takes the place of the others
pushAfterHook_replace(stack, w) == <<w>>

\* afterChangeStack.push(afterHook)
pushAfterHook(stack, w) == Append(stack, w)

\* the mutant of popAfterHook: the callback pushed first is taken
popAfterHook_first(stack) == [hook |-> Head(stack), rest |-> Tail(stack)]

\* afterChangeStack.pop(): the callback pushed last, and what is left
popAfterHook(stack) == [hook |-> stack[Len(stack)], rest |-> SubSeq(stack, 1, Len(stack) - 1)]

\* the mutant of drainLoop: the loop stops at the last callback
drainLoop_leavesOne(stack) == Len(stack) > 1

\* the condition of the loop of _nestedMutation: afterChangeStack.length
drainLoop(stack) == stack # <<>>

\* _nestedMutation, line 1251-1252: the after hook is pushed; the root goes
\* on to drain the stack, any other invocation returns
PushAfterHook(w) ==
  /\ w \in Started
  /\ writes[w].pc = "push"
  /\ mutationStates' = [mutationStates EXCEPT ![writes[w].ms].afterChangeStack =
                          pushAfterHook(@, w)]
  /\ writes' = Advance(w, "push", IF writes[w].isRootMutation THEN "drain" ELSE "done")
  /\ UNCHANGED <<store, req, afterSeq, probe>>

\* what the afterHook closure of a write may do when it is called:
\* _afterChange(newItem, ...) of an update whose adapter.update returned
\* null throws in _runHook (_fieldsFromObject(null)); any other returns or
\* throws what a hook throws
afterHookOutcomes(wr) ==
  IF wr.kind = "update" /\ wr.result = 0 THEN {TypeError} ELSE {NoError, HookError}

\* the mutant of afterHookCalled: the loop goes on after a callback raised
afterHookCalled_goesOn(ws, w, h, outcome) ==
  [k \in 1 .. Len(ws) |->
     LET given == IF k = h
                  THEN [ws[k] EXCEPT !.hookInputs = @ \o hookInputsOf(ws[h], "afterChange")]
                  ELSE ws[k]
     IN IF k = w /\ outcome # NoError
        THEN [given EXCEPT !.error = outcome]
        ELSE given]

\* the writes after the callback of write h, called by the draining write
\* w, ended with outcome: h has its hook arguments; an error leaves w
afterHookCalled(ws, w, h, outcome) ==
  [k \in 1 .. Len(ws) |->
     LET given == IF k = h
                  THEN [ws[k] EXCEPT !.hookInputs = @ \o hookInputsOf(ws[h], "afterChange")]
                  ELSE ws[k]
     IN IF k = w /\ outcome # NoError
        THEN [given EXCEPT !.pc = "failed", !.error = outcome]
        ELSE given]

\* one turn of the loop of _nestedMutation, line 1256-1258: a callback is
\* popped and invoked (_afterChange or _afterDelete of the write it is of);
\* if it throws, _nestedMutation throws and the loop is left
PopAfterHook(w) ==
  /\ w \in Started
  /\ writes[w].pc = "drain"
  /\ drainLoop(mutationStates[writes[w].ms].afterChangeStack)
  /\ LET popped == popAfterHook(mutationStates[writes[w].ms].afterChangeStack)
     IN /\ mutationStates' = [mutationStates EXCEPT ![writes[w].ms].afterChangeStack =
                                popped.rest]
        /\ afterSeq' = Append(afterSeq, popped.hook)
        /\ \E outcome \in afterHookOutcomes(writes[popped.hook]) :
             writes' = afterHookCalled(writes, w, popped.hook, outcome)
  /\ UNCHANGED <<store, req, probe>>

\* the loop ends on the empty stack and _nestedMutation returns the result
NestedMutationReturn(w) ==
  /\ w \in Started
  /\ writes[w].pc = "drain"
  /\ ~drainLoop(mutationStates[writes[w].ms].afterChangeStack)
  /\ writes' = Advance(w, "return", "done")
  /\ UNCHANGED <<store, req, mutationStates, afterSeq, probe>>

\* the mutant of ReturnToCaller: the failure of the call ends the writes
\* that have not settled
ReturnToCaller_cancels ==
  /\ req.status = "running"
  /\ \/ /\ \A k \in 1 .. Len(req.roots) : writes[req.roots[k]].pc = "done"
        /\ req' = [req EXCEPT !.status = "returned",
                              !.result = [k \in 1 .. Len(req.roots) |->
                                            writes[req.roots[k]].result]]
        /\ UNCHANGED writes
     \/ \E k \in 1 .. Len(req.roots) :
          /\ writes[req.roots[k]].pc = "failed"
          /\ req' = [req EXCEPT !.status = "failed", !.error = writes[req.roots[k]].error]
          /\ writes' = [c \in 1 .. Len(writes) |->
                          IF Settled(c) THEN writes[c] ELSE [writes[c] EXCEPT !.pc = "failed"]]
  /\ UNCHANGED <<store, mutationStates, afterSeq, probe>>

\* the entry point settles: a single mutation with its write, a batch
\* (Promise.all) when every constituent returned or as soon as one threw
ReturnToCaller ==
  /\ req.status = "running"
  /\ \/ /\ \A k \in 1 .. Len(req.roots) : writes[req.roots[k]].pc = "done"
        /\ req' = [req EXCEPT !.status = "returned",
                              !.result = [k \in 1 .. Len(req.roots) |->
                                            writes[req.roots[k]].result]]
     \/ \E k \in 1 .. Len(req.roots) :
          /\ writes[req.roots[k]].pc = "failed"
          /\ req' = [req EXCEPT !.status = "failed", !.error = writes[req.roots[k]].error]
  /\ UNCHANGED <<store, writes, mutationStates, afterSeq, probe>>

(***************************************************************************)
(* The specification of a request.                                          *)
(***************************************************************************)
\* the transport calls an entry point with inputs of the model
CreateMutation ==
  /\ req.entry = "none"
  /\ \E access \in ReqAccess, deniedFields \in DeniedFieldSets, input \in RootInputs :
       createMutation(access, deniedFields, input)

CreateManyMutation ==
  /\ req.entry = "none"
  /\ \E access \in ReqAccess, deniedFields \in DeniedFieldSets,
        inputs \in SeqsUpTo(SmallInputs, MaxWrites) :
       /\ inputs # <<>>
       /\ SumInputs(inputs) <= MaxWrites
       /\ createManyMutation(access, deniedFields, inputs)

UpdateMutation ==
  /\ req.entry = "none"
  /\ \E access \in ReqAccess, deniedFields \in DeniedFieldSets, id \in StoredIds,
        input \in RootInputs :
       updateMutation(access, deniedFields, id, input)

UpdateManyMutation ==
  /\ req.entry = "none"
  /\ \E access \in ReqAccess, deniedFields \in DeniedFieldSets,
        ids \in SeqsUpTo(StoredIds, MaxWrites) :
       /\ ids # <<>>
       /\ \E inputs \in {q \in SeqsUpTo(SmallInputs, MaxWrites) : Len(q) = Len(ids)} :
            /\ SumInputs(inputs) <= MaxWrites
            /\ updateManyMutation(access, deniedFields, ids, inputs)

DeleteMutation ==
  /\ req.entry = "none"
  /\ \E access \in ReqAccess, id \in StoredIds, verdict \in Verdicts :
       deleteMutation(access, id, verdict)

DeleteManyMutation ==
  /\ req.entry = "none"
  /\ \E access \in ReqAccess, ids \in SeqsUpTo(StoredIds, MaxWrites), verdict \in Verdicts :
       deleteManyMutation(access, ids, verdict)

ItemQuery ==
  /\ req.entry = "none"
  /\ \E access \in ReqAccess, id \in StoredIds : itemQuery(access, id)

ListQuery ==
  /\ req.entry = "none"
  /\ \E access \in ReqAccess, args \in {a \in ReqAccess : a.tag = "Filter"} :
       listQuery(access, args)

ListQueryMeta ==
  /\ req.entry = "none"
  /\ \E access \in ReqAccess, args \in {a \in ReqAccess : a.tag = "Filter"} :
       listQueryMeta(access, args)

Next ==
  \/ CreateMutation
  \/ CreateManyMutation
  \/ UpdateMutation
  \/ UpdateManyMutation
  \/ DeleteMutation
  \/ DeleteManyMutation
  \/ ItemQuery
  \/ ListQuery
  \/ ListQueryMeta
  \/ \E p \in Started, input \in SmallInputs : ResolveNestedOperations(p, input)
  \/ \E w \in Started : ResolveRelationship(w)
  \/ \E w \in Started : ResolveInput(w)
  \/ \E w \in Started : ValidateInput(w)
  \/ \E w \in Started : BeforeChange(w)
  \/ \E w \in Started : AdapterCreate(w)
  \/ \E w \in Started : AdapterUpdate(w)
  \/ \E w \in Started : RegisterBacklinks(w)
  \/ \E w \in Started : ValidateDelete(w)
  \/ \E w \in Started : BeforeDelete(w)
  \/ \E w \in Started : AdapterDelete(w)
  \/ \E w \in Started : ResolveBacklinks(w)
  \/ \E w \in Started : PushAfterHook(w)
  \/ \E w \in Started : PopAfterHook(w)
  \/ \E w \in Started : NestedMutationReturn(w)
  \/ ReturnToCaller

Spec == Init /\ [][Next]_vars

(***************************************************************************)
(* Properties of the after-change stack and of the mutationState.          *)
(***************************************************************************)
InAfter(w) == \E k \in 1 .. Len(afterSeq) : afterSeq[k] = w
PosAfter(w) == CHOOSE k \in 1 .. Len(afterSeq) : afterSeq[k] = w
CountAfter(w) == Cardinality({k \in 1 .. Len(afterSeq) : afterSeq[k] = w})
StackOf(w) == mutationStates[writes[w].ms].afterChangeStack
SameState(w) == {x \in Started : writes[x].ms = writes[w].ms}

\* C1 as stated: the after hook of a nested write is invoked before the
\* after hook of its parent.
C1_NestedHookBeforeParent ==
  \A c \in Started :
    (writes[c].parent # 0 /\ InAfter(writes[c].parent))
      => (InAfter(c) /\ PosAfter(c) < PosAfter(writes[c].parent))

\* C1 amended: the after hook of a nested write is invoked after the after
\* hook of its parent: the root pushes last and its hook fires first, the
\* write that completed first (the deepest) fires last.
C1_ParentHookBeforeNested ==
  \A c \in Started :
    (writes[c].parent # 0 /\ InAfter(c))
      => (InAfter(writes[c].parent) /\ PosAfter(writes[c].parent) < PosAfter(c))

\* a root, its nested write and the nested write of that one have all had
\* their after hooks invoked
C1_Witness ==
  \E c \in Started :
    /\ writes[c].parent # 0
    /\ writes[writes[c].parent].parent # 0
    /\ InAfter(c)
    /\ InAfter(writes[c].parent)
    /\ InAfter(writes[writes[c].parent].parent)

\* C2: when the _nestedMutation of a root write has returned, the after
\* hook of every write persisted under its mutationState (the root write
\* itself included) was invoked exactly once and the stack is empty.
C2_AllHooksRunAtReturn ==
  \A w \in Started :
    (writes[w].parent = 0 /\ writes[w].pc = "done")
      => /\ StackOf(w) = <<>>
         /\ CountAfter(w) = 1
         /\ \A x \in Started :
              (writes[x].persisted /\ (x = w \/ writes[x].ms = writes[w].ms))
                => CountAfter(x) = 1

\* a root write has returned with two nested writes persisted under it
C2_Witness ==
  \E w \in Started :
    /\ writes[w].parent = 0
    /\ writes[w].pc = "done"
    /\ Cardinality({x \in SameState(w) : x # w /\ writes[x].persisted}) >= 2

\* C3, the state part: a nested invocation never drains; while the root
\* drains or has returned, its own write is persisted and every write that
\* shares the state has returned; after the return the stack is empty.
C3_DrainState ==
  \A w \in Started :
    /\ writes[w].parent # 0 => writes[w].pc # "drain"
    /\ (writes[w].parent = 0 /\ writes[w].pc \in {"drain", "done"})
         => /\ writes[w].persisted
            /\ \A x \in SameState(w) : x # w => writes[x].pc = "done"
    /\ (writes[w].parent = 0 /\ writes[w].pc = "done") => StackOf(w) = <<>>

\* C3, the step part: before the drain a stack only grows, by appending;
\* it shrinks only while the root that created it is draining, and no
\* hook is invoked by any other step.
C3_DrainStep ==
  /\ \A m \in 1 .. Len(mutationStates) :
       LET root == mutationStates[m].createdBy
           stack == mutationStates[m].afterChangeStack
           stack1 == mutationStates'[m].afterChangeStack
       IN /\ writes[root].parent = 0
          /\ writes[root].pc # "drain"
               => /\ Len(stack1) >= Len(stack)
                  /\ SubSeq(stack1, 1, Len(stack)) = stack
          /\ writes[root].pc = "drain"
               => /\ Len(stack1) <= Len(stack)
                  /\ stack1 = SubSeq(stack, 1, Len(stack1))
  /\ afterSeq' # afterSeq
       => \E m \in 1 .. Len(mutationStates) :
            LET stack == mutationStates[m].afterChangeStack
            IN /\ writes[mutationStates[m].createdBy].pc = "drain"
               /\ stack # <<>>
               /\ mutationStates'[m].afterChangeStack = SubSeq(stack, 1, Len(stack) - 1)
               /\ afterSeq' = Append(afterSeq, stack[Len(stack)])

\* C3: the after-change stack is drained once, by the root alone, after
\* the root's storage write and every nested write completed.
C3_DrainedOnceByRoot == []C3_DrainState /\ [][C3_DrainStep]_vars

\* the root is draining a stack that holds the callback of a nested write
C3_Witness ==
  \E w \in Started, c \in Started :
    /\ writes[w].pc = "drain"
    /\ writes[c].parent = w
    /\ \E k \in 1 .. Len(StackOf(w)) : StackOf(w)[k] = c

SingleEntries == {"createMutation", "updateMutation", "deleteMutation"}
BatchEntries == {"createManyMutation", "updateManyMutation", "deleteManyMutation"}

operationOf(entry) ==
  CASE entry \in {"createMutation", "createManyMutation"} -> "create"
    [] entry \in {"updateMutation", "updateManyMutation"} -> "update"
    [] entry \in {"deleteMutation", "deleteManyMutation"} -> "delete"
    [] OTHER -> "read"

\* C6: under a denied list access every entry point fails with an
\* AccessDeniedError, makes no ListAdapter call, starts no write and runs
\* no hook.
C6_DeniedListAccess ==
  (req.entry # "none" /\ req.access.tag = "Deny")
    => /\ req.status = "failed"
       /\ req.error.kind = "AccessDeniedError"
       /\ req.error.data.type = opToType(operationOf(req.entry))
       /\ req.calls = <<>>
       /\ writes = <<>>
       /\ afterSeq = <<>>
       /\ store = req.before

\* a batch update was refused under a denied list access
C6_Witness ==
  /\ req.entry = "updateManyMutation"
  /\ req.access.tag = "Deny"
  /\ Len(req.ids) >= 2
  /\ req.status = "failed"

\* the access result admits the stored item i
Admits(access, st, i) ==
  \/ access.tag = "Allow"
  \/ access.tag = "Filter" /\ Matches(st, i, access)

\* C7: updateMutation, deleteMutation and itemQuery of an id that storage
\* does not hold, or holds but the access filter excludes, fail with the
\* same AccessDeniedError (kind and public payload), never with another
\* error and never by returning.
C7_MissingOrExcluded ==
  (/\ req.entry \in {"updateMutation", "deleteMutation", "itemQuery"}
   /\ req.access.tag # "Deny"
   /\ \/ req.before[req.id] = NoItem
      \/ ~Admits(req.access, req.before, req.id))
    => /\ req.status = "failed"
       /\ req.error.kind = "AccessDeniedError"
       /\ req.error.data = AccessDeniedError(operationOf(req.entry), gqlNames(req.entry),
                                             <<>>, <<>>).data
       /\ writes = <<>>

\* a delete of a stored item that the filter excludes was refused
C7_Witness ==
  /\ req.entry = "deleteMutation"
  /\ req.access.tag = "Filter"
  /\ req.before[req.id] # NoItem
  /\ ~Admits(req.access, req.before, req.id)
  /\ req.status = "failed"

\* an update of an id that storage does not hold was refused
C7_WitnessMissing ==
  /\ req.entry = "updateMutation"
  /\ req.access.tag = "Allow"
  /\ req.before[req.id] = NoItem
  /\ req.status = "failed"

(***************************************************************************)
(* Properties of validation.                                                *)
(***************************************************************************)
\* the required non-relationship fields that are missing or null in data
MissingRequired(data) ==
  {f \in Fields : isRequired(f) /\ ~isRelationship(f) /\ data[f] \in {ABSENT, UNDEF, NULL}}

\* C9: a create whose resolved data lacks k >= 1 required non-relationship
\* fields fails validation with one ValidationFailureError of exactly k
\* messages, one per such field, and adapter.create is not called for it.
C9_RequiredFieldsOfCreate ==
  \A w \in Started :
    (/\ writes[w].kind = "create"
     /\ \E k \in 1 .. Len(writes[w].steps) : writes[w].steps[k] = "resolveInput"
     /\ MissingRequired(writes[w].resolvedData) # {})
      => /\ ~writes[w].persisted
         /\ \A k \in 1 .. Len(writes[w].steps) : writes[w].steps[k] # "persist"
         /\ writes[w].pc \in {"validateInput", "failed"}
         /\ writes[w].pc = "failed"
              => /\ writes[w].error.kind = "ValidationFailureError"
                 /\ Len(writes[w].error.data.messages)
                      = Cardinality(MissingRequired(writes[w].resolvedData))
                 /\ \A f \in MissingRequired(writes[w].resolvedData) :
                      \E k \in 1 .. Len(writes[w].error.data.messages) :
                        writes[w].error.data.messages[k] = Msg("isRequired", f)

\* a create that lacks both required text fields failed with two messages
C9_Witness ==
  \E w \in Started :
    /\ writes[w].kind = "create"
    /\ Cardinality(MissingRequired(writes[w].resolvedData)) = 2
    /\ writes[w].pc = "failed"
    /\ Len(writes[w].error.data.messages) = 2

(***************************************************************************)
(* The validation functions on their own: every resolved data, every       *)
(* combination of reports of the validators.                               *)
(***************************************************************************)
ProbeData == {Data(n, s, a) : n \in TextInputs, s \in TextInputs, a \in {ABSENT, "ref"}}
ProbeVerdicts ==
  {Verdict(b, u, l) : b \in SUBSET Fields, u \in SUBSET Fields,
                      l \in {<<>>, <<"l1">>, <<"l1", "l2">>}}

CallValidateInput ==
  /\ probe.fn = "none"
  /\ \E data \in ProbeData, verdict \in ProbeVerdicts, operation \in {"create", "update"} :
       probe' = [fn |-> "validateInput", data |-> data, verdict |-> verdict,
                 operation |-> operation,
                 out |-> validateInput(data, verdict, operation)]
  /\ UNCHANGED <<store, req, writes, mutationStates, afterSeq>>

CallValidateDelete ==
  /\ probe.fn = "none"
  /\ \E verdict \in ProbeVerdicts :
       probe' = [fn |-> "validateDelete", data |-> NoItem, verdict |-> verdict,
                 operation |-> "delete",
                 out |-> validateDelete(verdict, "delete")]
  /\ UNCHANGED <<store, req, writes, mutationStates, afterSeq>>

NextValidate == CallValidateInput \/ CallValidateDelete
SpecValidate == Init /\ [][NextValidate]_vars

\* the failures each stage of the validation of the probed write has to
\* report: the required-field check, the validators of the fields (built-in
\* and user hooks, of the fields the phase is run over), the list hook
Validated == probe.fn \in {"validateInput", "validateDelete"}
ValidatedFields ==
  IF probe.fn = "validateInput" THEN {f \in Fields : probe.data[f] # ABSENT} ELSE Fields
RequiredStage ==
  IF probe.fn # "validateInput" THEN {}
  ELSE {Msg("isRequired", f) :
          f \in {g \in Fields :
                   /\ isRequired(g) /\ ~isRelationship(g)
                   /\ probe.data[g] \in {UNDEF, NULL}
                        \/ (probe.operation = "create" /\ probe.data[g] = ABSENT)}}
FieldStage ==
  {Msg("field", f) : f \in probe.verdict.builtin \cap ValidatedFields}
    \cup {Msg("fieldHook", f) : f \in probe.verdict.user \cap ValidatedFields}
ListStage == {Msg("listHook", probe.verdict.list[k]) : k \in 1 .. Len(probe.verdict.list)}
FirstStage ==
  IF RequiredStage # {} THEN RequiredStage
  ELSE IF FieldStage # {} THEN FieldStage
  ELSE ListStage
Carries(error, msgs) ==
  /\ error.kind = "ValidationFailureError"
  /\ Range(error.data.messages) = msgs
  /\ Len(error.data.messages) = Cardinality(msgs)

MaxIds == 3
ProbeIds == SeqsUpTo(1 .. (MaxStored + 1), MaxIds)
ProbeAccess ==
  {AllowAccess} \cup
  {Access("Filter", id, id_not, has_in, id_in, has_not_in, id_not_in, name) :
     id \in 0 .. MaxStored, id_not \in 0 .. MaxStored,
     has_in \in BOOLEAN, id_in \in SUBSET StoredIds,
     has_not_in \in BOOLEAN, id_not_in \in SUBSET StoredIds,
     name \in {"any", "a"}}

CallGetAccessControlledItems ==
  /\ probe.fn = "none"
  /\ \E ids \in ProbeIds, access \in ProbeAccess :
       /\ access.has_in \/ access.id_in = {}
       /\ access.has_not_in \/ access.id_not_in = {}
       /\ probe' = [fn |-> "getAccessControlledItems", ids |-> ids, access |-> access,
                    out |-> GetAccessControlledItems(store, ids, access)]
  /\ UNCHANGED <<store, req, writes, mutationStates, afterSeq>>

SpecAccess == Init /\ [][CallGetAccessControlledItems]_vars

\* C10: getAccessControlledItems returns exactly the stored items whose id
\* is requested and which the access result admits, each once, whatever
\* duplicates, excluded or absent ids the request holds.
C10_ExactlyTheAdmittedItems ==
  probe.fn = "getAccessControlledItems" =>
    /\ Range(probe.out.items) =
         {i \in Range(probe.ids) : store[i] # NoItem /\ Admits(probe.access, store, i)}
    /\ Len(probe.out.items) = Cardinality(Range(probe.out.items))

\* the same, for the access results that do not hold both id and id_in
C10_ExactWithoutIdAndIdIn ==
  (probe.fn = "getAccessControlledItems" /\ ~(probe.access.id # 0 /\ probe.access.has_in))
    => C10_ExactlyTheAdmittedItems

(***************************************************************************)
(* Lookups of ids that storage does not hold.                               *)
(***************************************************************************)
\* C11: under full access, deleteMutation and updateMutation of an id that
\* storage does not hold fail with AccessDeniedError: the request does not
\* return, no _nestedMutation starts (no validate, before or after hook),
\* and storage was only read, by findById, never written.
C11_MissingIdUnderFullAccess ==
  (/\ req.entry \in {"deleteMutation", "updateMutation"}
   /\ req.access.tag = "Allow"
   /\ req.before[req.id] = NoItem)
    => /\ req.status = "failed"
       /\ req.error.kind = "AccessDeniedError"
       /\ req.result = <<>>
       /\ req.calls = <<AdapterCall("findById", [NoWhere EXCEPT !.id = req.id], 0)>>
       /\ writes = <<>>
       /\ mutationStates = <<>>
       /\ afterSeq = <<>>
       /\ store = req.before

\* a delete of an id storage does not hold was refused under full access
C11_Witness ==
  /\ req.entry = "deleteMutation"
  /\ req.access.tag = "Allow"
  /\ req.before[req.id] = NoItem
  /\ req.status = "failed"
  /\ req.error.kind = "AccessDeniedError"

(***************************************************************************)
(* The handle of the item under creation (createdPromise).                  *)
(***************************************************************************)
HasStep(w, step) == \E k \in 1 .. Len(writes[w].steps) : writes[w].steps[k] = step
LastStep(w) == writes[w].steps[Len(writes[w].steps)]
\* the root write w failed while it drained the stack: an after hook threw
FailedInDrain(w) ==
  writes[w].pc = "failed" /\ writes[w].steps # <<>> /\ LastStep(w) = "push"

CreateFailedInStorage(w) ==
  \/ writes[w].handle = "rejected"
  \/ /\ writes[w].kind = "create"
     /\ writes[w].pc = "failed"
     /\ LastStep(w) = "persist"

\* what C13 says of the write itself: the handle is rejected, the storage
\* error is the error thrown, no callback of the write was pushed
C13_OfTheWrite(w) ==
  /\ writes[w].handle = "rejected"
  /\ writes[w].pc = "failed"
  /\ LastStep(w) = "persist"
  /\ writes[w].error = StorageError
  /\ ~writes[w].persisted
  /\ \A m \in 1 .. Len(mutationStates) :
       \A k \in 1 .. Len(mutationStates[m].afterChangeStack) :
         mutationStates[m].afterChangeStack[k] # w
  /\ ~InAfter(w)
  /\ (req.entry = "createMutation" /\ writes[w].parent = 0 /\ req.status = "failed")
       => req.error = StorageError

C13_WitnessBatch ==
  \E w \in Started :
    /\ req.entry = "createManyMutation"
    /\ CreateFailedInStorage(w)
    /\ afterSeq # <<>>

(***************************************************************************)
(* Field-level access of the write entry points.                            *)
(***************************************************************************)
WriteEntries ==
  {"createMutation", "createManyMutation", "updateMutation", "updateManyMutation"}

\* some input item of the request holds a field whose access is denied
DeniedFieldInInput ==
  \E k \in 1 .. Len(req.inputs) :
    \E f \in req.deniedFields : req.inputs[k][f] # ABSENT

\* C14: a create, createMany, update or updateMany whose input holds a
\* field with denied field access fails with AccessDeniedError before any
\* storage call, hook or nested write; nothing is written.
C14_DeniedFieldAbortsBeforeStorage ==
  (req.entry \in WriteEntries /\ req.access.tag # "Deny" /\ DeniedFieldInInput)
    => /\ req.status = "failed"
       /\ req.error.kind = "AccessDeniedError"
       /\ req.calls = <<>>
       /\ writes = <<>>
       /\ afterSeq = <<>>
       /\ store = req.before

\* the same for createMutation and createManyMutation alone
C14_OfCreates ==
  req.entry \in {"createMutation", "createManyMutation"} => C14_DeniedFieldAbortsBeforeStorage

\* updateMutation: the request fails and writes nothing, but storage has
\* been read by the lookup of the existing item
C14_OfUpdate ==
  (req.entry = "updateMutation" /\ req.access.tag # "Deny" /\ DeniedFieldInInput)
    => /\ req.status = "failed"
       /\ req.error.kind = "AccessDeniedError"
       /\ Len(req.calls) <= 1
       /\ writes = <<>>
       /\ store = req.before

\* updateManyMutation, were it to fail and write nothing
C14_OfUpdateMany ==
  (req.entry = "updateManyMutation" /\ req.access.tag # "Deny" /\ DeniedFieldInInput)
    => /\ req.status = "failed"
       /\ req.error.kind = "AccessDeniedError"
       /\ writes = <<>>
       /\ store = req.before

(***************************************************************************)
(* Failures after nested writes.                                            *)
(***************************************************************************)
\* C15: the item a nested write persisted stays in storage whatever
\* happens to the write it is nested in (no compensating call), and the
\* failure of a write fails the write it is nested in and, at the root, the
\* request.
C15_NestedWritesRemain ==
  \A c \in Started :
    /\ (writes[c].parent # 0 /\ writes[c].kind = "create" /\ writes[c].persisted)
         => /\ writes[c].result # 0
            /\ store[writes[c].result] = writes[c].resolvedData
    /\ (writes[c].parent # 0 /\ writes[c].pc = "failed" /\ Settled(writes[c].parent))
         => writes[writes[c].parent].pc = "failed"
    /\ (writes[c].parent = 0 /\ writes[c].pc = "failed" /\ req.status \in {"returned", "failed"})
         => /\ req.status = "failed"
            /\ req.error.kind # "none"

\* a write failed its validation after two writes nested in it were
\* persisted; the request has failed and their items are in storage
C15_Witness ==
  \E p \in Started :
    /\ writes[p].parent = 0
    /\ writes[p].pc = "failed"
    /\ LastStep(p) = "validateInput"
    /\ req.status = "failed"
    /\ Cardinality({c \in Children(p) : writes[c].persisted
                                         /\ store[writes[c].result] # NoItem}) >= 2

\* the same after a storage error and after a hook error of the parent
C15_WitnessStorageError ==
  \E p \in Started, c \in Started :
    /\ writes[c].parent = p
    /\ writes[c].persisted
    /\ writes[p].pc = "failed"
    /\ writes[p].error \in {StorageError, HookError}
    /\ req.status = "failed"

(***************************************************************************)
(* The order of the steps of a write.                                       *)
(***************************************************************************)
CountStep(w, step) ==
  Cardinality({k \in 1 .. Len(writes[w].steps) : writes[w].steps[k] = step})
StepAt(w, step) == CHOOSE k \in 1 .. Len(writes[w].steps) : writes[w].steps[k] = step

ChangeSteps ==
  <<"resolveRelationship", "resolveInput", "validateInput", "beforeChange", "persist",
    "resolveBacklinks", "push", "return">>

IsChange(w) == writes[w].kind \in {"create", "update"}

\* C18, the state part: a create or update has passed the list access and
\* the field access checks; the steps it has taken are the first ones of
\* the fixed order, none skipped or repeated; the writes nested in it
\* started during its relationship resolution and have settled when it
\* ends; a failed write stopped at the step that failed.
C18_StepsInOrder ==
  \A w \in Started :
    IsChange(w) =>
      /\ req.access.tag # "Deny"
      /\ \A f \in req.deniedFields : writes[w].data[f] = ABSENT
      /\ Len(writes[w].steps) <= Len(ChangeSteps)
      /\ writes[w].steps = SubSeq(ChangeSteps, 1, Len(writes[w].steps))
      /\ writes[w].pc \notin {"done", "failed"}
           => writes[w].pc = ChangeSteps[Len(writes[w].steps) + 1]
                \/ (writes[w].pc = "drain" /\ LastStep(w) = "push")
      /\ writes[w].persisted <=> HasStep(w, "persist") /\ ~(writes[w].pc = "failed" /\ LastStep(w) = "persist")
      /\ \A c \in Children(w) :
           IF HasStep(w, "resolveRelationship") THEN Settled(c)
           ELSE writes[w].pc = "resolveRelationship"
      /\ writes[w].pc = "failed"
           => /\ writes[w].error.kind # "none"
              /\ \/ FailedInDrain(w) /\ writes[w].isRootMutation
                 \/ /\ ~HasStep(w, "push")
                    /\ LastStep(w) \in {"resolveRelationship", "validateInput",
                                       "beforeChange", "persist"}

\* C18, the step part: a failed write takes no further step, and a write
\* takes its steps one at a time.
C18_FailureStops ==
  \A w \in Started :
    /\ w <= Len(writes')
    /\ writes[w].pc = "failed"
         => /\ writes'[w].steps = writes[w].steps
            /\ writes'[w].pc = "failed"
            /\ writes'[w].persisted = writes[w].persisted
    /\ Len(writes'[w].steps) <= Len(writes[w].steps) + 1

C18_WitnessFailure ==
  \E w \in Started :
    /\ writes[w].kind = "create"
    /\ writes[w].pc = "failed"
    /\ writes[w].steps = SubSeq(ChangeSteps, 1, 4)

(***************************************************************************)
(* The field resolvers of a read, on their own: every stored item, every   *)
(* set of fields the user may not read, every set of fields whose static   *)
(* read access puts them in the schema.                                     *)
(***************************************************************************)
\* the mutant of wrapFieldResolverWithAC: the inner resolver runs before
\* the access is looked at
wrapFieldResolverWithAC_resolvesFirst(st, i, f, access) ==
  [value |-> IF access THEN st[i][f] ELSE "none",
   error |-> IF access THEN NoError ELSE AccessDeniedError("read", f, <<i>>, <<>>),
   inner |-> 1, checks |-> 1]

\* wrapFieldResolverWithAC(field, innerResolver)(item, args, context): the
\* value or the error of the field, the number of calls of the inner
\* resolver and of getFieldAccessControlForUser
wrapFieldResolverWithAC(st, i, f, access) ==
  IF ~access
  THEN [value |-> "none", error |-> AccessDeniedError("read", f, <<i>>, <<>>),
        inner |-> 0, checks |-> 1]
  ELSE [value |-> st[i][f], error |-> NoError, inner |-> 1, checks |-> 1]

\* gqlFieldResolvers: the wrapped resolvers of the fields with static read
\* access, none when the list has no read access; applied to one item
gqlFieldResolvers(st, i, listRead, staticRead, denied) ==
  [f \in (IF listRead THEN staticRead ELSE {}) |->
     wrapFieldResolverWithAC(st, i, f, f \notin denied)]

CallFieldResolvers ==
  /\ probe.fn = "none"
  /\ \E i \in StoredIds, listRead \in BOOLEAN, staticRead \in SUBSET Fields,
        denied \in SUBSET Fields :
       /\ store[i] # NoItem
       /\ probe' = [fn |-> "gqlFieldResolvers", item |-> i, listRead |-> listRead,
                    staticRead |-> staticRead, denied |-> denied,
                    out |-> gqlFieldResolvers(store, i, listRead, staticRead, denied)]
  /\ UNCHANGED <<store, req, writes, mutationStates, afterSeq>>

SpecRead == Init /\ [][CallFieldResolvers]_vars

\* C16: on a read the access of a field is checked once per item and
\* field, before the inner resolver: a denied field fails with an
\* AccessDeniedError of its own and its inner resolver is not called; every
\* sibling field that is allowed resolves to its value.
C16_DeniedFieldFailsAlone ==
  probe.fn = "gqlFieldResolvers" =>
    \A f \in DOMAIN probe.out :
      /\ probe.out[f].checks = 1
      /\ f \in probe.denied
           => /\ probe.out[f].error.kind = "AccessDeniedError"
              /\ probe.out[f].error.data.type = "query"
              /\ probe.out[f].error.data.target = f
              /\ probe.out[f].error.internalData.itemId = <<probe.item>>
              /\ probe.out[f].inner = 0
              /\ probe.out[f].value = "none"
      /\ f \notin probe.denied
           => /\ probe.out[f].error = NoError
              /\ probe.out[f].inner = 1
              /\ probe.out[f].value = store[probe.item][f]

\* one field of the item was denied and two sibling fields resolved
C16_Witness ==
  /\ probe.fn = "gqlFieldResolvers"
  /\ \E f \in DOMAIN probe.out : probe.out[f].error.kind = "AccessDeniedError"
  /\ Cardinality({f \in DOMAIN probe.out : probe.out[f].error = NoError
                                             /\ probe.out[f].value = store[probe.item][f]}) = 2

(***************************************************************************)
(* _resolveInput on its own: every input object, every choice of what the  *)
(* fields' built-in resolveInput and user hooks return, every list hook.   *)
(***************************************************************************)
HookKinds == {"keep", "undefined", "h"}
ListHooks == {"none", "same", "clearSlug", "onlySlug"}

CallResolveInput ==
  /\ probe.fn = "none"
  /\ \E data \in ProbeData, builtin \in [Fields -> {"keep", "b"}],
        hooked \in SUBSET Fields, kind \in HookKinds, lhook \in ListHooks :
       probe' = [fn |-> "resolveInput", data |-> data, builtin |-> builtin,
                 hooked |-> hooked, kind |-> kind, lhook |-> lhook,
                 steps |-> resolveInputSteps(data, builtin, hooked,
                                             [f \in Fields |-> kind], lhook)]
  /\ UNCHANGED <<store, req, writes, mutationStates, afterSeq>>

SpecResolve == Init /\ [][CallResolveInput]_vars

Resolved == probe.fn = "resolveInput"

\* the field steps: the built-in results are applied first, a user hook
\* is given them and its result overrides them, and a field without a user
\* hook keeps its built-in result
C20_FieldSteps ==
  \A f \in Fields :
    IF probe.data[f] = ABSENT THEN probe.steps.afterFieldHooks[f] = ABSENT
    ELSE /\ probe.steps.afterBuiltins[f] = hookReturn(probe.builtin[f], probe.data, f)
         /\ f \in probe.hooked
              => probe.steps.afterFieldHooks[f]
                   = hookReturn(probe.kind, probe.steps.afterBuiltins, f)
         /\ f \notin probe.hooked
              => probe.steps.afterFieldHooks[f] = probe.steps.afterBuiltins[f]

\* the list step runs last on the data of the field steps
C20_ListStepLast ==
  IF probe.lhook = "none" THEN probe.steps.out = probe.steps.afterFieldHooks
  ELSE probe.steps.listGiven = probe.steps.afterFieldHooks

\* C20 as stated: every step's output is merged into the working data, a
\* key a step does not return keeps its previous value; built-in results
\* come before user-hook results, and the list-level resolveInput runs
\* last, is given the data of the field steps and its values override them.
C20_EveryStepMerged ==
  Resolved =>
    /\ C20_FieldSteps
    /\ C20_ListStepLast
    /\ probe.lhook # "none"
         => \A f \in Fields :
              probe.steps.out[f] = IF probe.steps.returned[f] # ABSENT
                                   THEN probe.steps.returned[f]
                                   ELSE probe.steps.afterFieldHooks[f]

\* C20 (amended): the results of the field user hooks are merged into the
\* built-in results, which come first; the list-level resolveInput runs
\* last, is given the data of the field steps, and the object it returns
\* becomes the data whole: a key it does not return is lost.
C20_ListResultReplaces ==
  Resolved =>
    /\ C20_FieldSteps
    /\ C20_ListStepLast
    /\ probe.lhook # "none" => probe.steps.out = probe.steps.returned

\* a list hook returned an object without the name the field steps had
\* produced, after a user hook had overridden a built-in result
C20_Witness ==
  /\ Resolved
  /\ probe.lhook = "onlySlug"
  /\ probe.steps.afterFieldHooks.name = "h"
  /\ probe.steps.afterBuiltins.name = "b"
  /\ probe.steps.returned.name = ABSENT
  /\ probe.steps.out.name = ABSENT

(***************************************************************************)
(* One hook phase on its own (_runHook, _validateHook): the built-in       *)
(* implementations of the participating fields are called together and     *)
(* settle in any order, then the user hooks of the fields that declare     *)
(* one, then the hook of the list.  probe holds the invocation: what each  *)
(* call is doing and where the function stands.                            *)
(***************************************************************************)
HookNames == {"validateInput", "validateDelete", "beforeChange", "beforeDelete",
              "afterChange", "afterDelete"}
isValidation(hookName) == hookName \in {"validateInput", "validateDelete"}

\* resolveAllKeys over the calls of the fields in fs: pending until every
\* call has settled, then rejected if one threw
resolveAllKeys(calls, fs) ==
  IF \E f \in fs : calls[f] = "running" THEN "pending"
  ELSE IF \E f \in fs : calls[f] = "threw" THEN "rejected" ELSE "resolved"

\* the mutant of awaitMapToFields: the function goes on while calls run
awaitMapToFields_goesOn(status) == status # "rejected"

\* await this._mapToFields(...): the function goes on when it has resolved
awaitMapToFields(status) == status = "resolved"

\* the errors object of the rejection of resolveAllKeys: the error of every
\* call that threw, by field path (the error of field f is named after f)
rejectionErrors(calls, fs) ==
  [f \in {g \in fs : calls[g] = "threw"} |-> f]

\* the mutant of mapToFieldsError: the copy carries the first error only
mapToFieldsError_first(errors) ==
  LET paths == SelectPaths(FieldPaths, DOMAIN errors)
  IN IF paths = <<>> THEN <<>> ELSE <<errors[paths[1]]>>

\* the catch of _mapToFields: errorCopy.errors = Object.values(error.errors)
mapToFieldsError(errors) ==
  LET paths == SelectPaths(FieldPaths, DOMAIN errors)
  IN [k \in 1 .. Len(paths) |-> errors[paths[k]]]

\* the calls _mapToFields(fs, action) makes, one per field of fs
startCalls(fs) == [f \in Fields |-> IF f \in fs THEN "running" ELSE "idle"]

InHook == probe.fn = "runHook"

\* _runHook / _validateHook is called: the built-ins of the fields start
CallRunHook ==
  /\ probe.fn = "none"
  /\ \E hookName \in HookNames, fs \in SUBSET Fields, hooked \in SUBSET Fields,
        listHook \in BOOLEAN :
       /\ hookName = "validateDelete" => fs = Fields
       /\ probe' = [fn |-> "runHook", hookName |-> hookName, fields |-> fs,
                    hooked |-> fs \cap hooked, listHook |-> listHook,
                    builtin |-> startCalls(fs), user |-> startCalls({}),
                    list |-> "idle", errors |-> FALSE, pc |-> "builtins",
                    thrown |-> <<>>]
  /\ UNCHANGED <<store, req, writes, mutationStates, afterSeq>>

\* the built-in implementation of field f settles; a validation hook may
\* have added a field validation error
SettleBuiltin(f) ==
  /\ InHook
  /\ probe.builtin[f] = "running"
  /\ \E outcome \in {"settled", "threw"}, adds \in BOOLEAN :
       /\ adds => isValidation(probe.hookName) /\ outcome = "settled"
       /\ probe' = [probe EXCEPT !.builtin[f] = outcome, !.errors = @ \/ adds]
  /\ UNCHANGED <<store, req, writes, mutationStates, afterSeq>>

\* the first await returns: the user hooks of the fields start
StartFieldHooks ==
  /\ InHook
  /\ probe.pc = "builtins"
  /\ awaitMapToFields(resolveAllKeys(probe.builtin, probe.fields))
  /\ probe' = [probe EXCEPT !.user = startCalls(probe.hooked), !.pc = "fieldHooks"]
  /\ UNCHANGED <<store, req, writes, mutationStates, afterSeq>>

\* the user hook of field f settles
SettleFieldHook(f) ==
  /\ InHook
  /\ probe.user[f] = "running"
  /\ \E outcome \in {"settled", "threw"}, adds \in BOOLEAN :
       /\ adds => isValidation(probe.hookName) /\ outcome = "settled"
       /\ probe' = [probe EXCEPT !.user[f] = outcome, !.errors = @ \/ adds]
  /\ UNCHANGED <<store, req, writes, mutationStates, afterSeq>>

\* the second await returns: field validation errors are thrown, else the
\* hook of the list starts if the list declares one
StartListHook ==
  /\ InHook
  /\ probe.pc = "fieldHooks"
  /\ awaitMapToFields(resolveAllKeys(probe.user, probe.hooked))
  /\ probe' = IF probe.errors THEN [probe EXCEPT !.pc = "failed"]
              ELSE IF probe.listHook
              THEN [probe EXCEPT !.list = "running", !.pc = "listHook"]
              ELSE [probe EXCEPT !.pc = "done"]
  /\ UNCHANGED <<store, req, writes, mutationStates, afterSeq>>

\* the hook of the list settles
SettleListHook ==
  /\ InHook
  /\ probe.list = "running"
  /\ \E outcome \in {"settled", "threw"}, adds \in BOOLEAN :
       /\ adds => isValidation(probe.hookName) /\ outcome = "settled"
       /\ probe' = [probe EXCEPT !.list = outcome,
                                 !.pc = IF outcome = "threw" \/ adds THEN "failed"
                                        ELSE "done"]
  /\ UNCHANGED <<store, req, writes, mutationStates, afterSeq>>

\* an awaited _mapToFields rejects: the function throws
RunHookThrows ==
  /\ InHook
  /\ \/ /\ probe.pc = "builtins"
        /\ resolveAllKeys(probe.builtin, probe.fields) = "rejected"
        /\ probe' = [probe EXCEPT !.pc = "failed",
                       !.thrown = mapToFieldsError(rejectionErrors(probe.builtin, probe.fields))]
     \/ /\ probe.pc = "fieldHooks"
        /\ resolveAllKeys(probe.user, probe.hooked) = "rejected"
        /\ probe' = [probe EXCEPT !.pc = "failed",
                       !.thrown = mapToFieldsError(rejectionErrors(probe.user, probe.hooked))]
  /\ UNCHANGED <<store, req, writes, mutationStates, afterSeq>>

NextHook ==
  \/ CallRunHook
  \/ \E f \in Fields : SettleBuiltin(f)
  \/ StartFieldHooks
  \/ \E f \in Fields : SettleFieldHook(f)
  \/ StartListHook
  \/ SettleListHook
  \/ RunHookThrows

SpecHook == Init /\ [][NextHook]_vars

\* C19: in every hook phase invocation no field user hook has started
\* before the built-in implementations of all participating fields have
\* settled, and the hook of the list has started only after all field user
\* hooks have settled.
C19_PhasesInOrder ==
  InHook =>
    /\ (\E f \in Fields : probe.user[f] # "idle")
         => \A g \in probe.fields : probe.builtin[g] = "settled"
    /\ probe.list # "idle"
         => /\ \A g \in probe.fields : probe.builtin[g] = "settled"
            /\ \A f \in probe.hooked : probe.user[f] = "settled"

\* the hook of a list is running after two field user hooks and three
\* built-in implementations settled
C19_Witness ==
  /\ InHook
  /\ probe.list = "running"
  /\ Cardinality(probe.hooked) = 2
  /\ probe.fields = Fields

\* a field user hook is running while another has settled
C19_WitnessFieldHooks ==
  /\ InHook
  /\ \E f, g \in probe.hooked : probe.user[f] = "running" /\ probe.user[g] = "settled"

\* the calls of the step of the phase the invocation failed in
FailedStep == IF probe.user = startCalls({}) THEN probe.builtin ELSE probe.user

\* C21: within one step of a hook phase a field hook that fails does not
\* cancel or skip its siblings: when the step's failure is raised every
\* participating field's hook has settled, and the failure carries the
\* failures of all failed fields, not only the first.
C21_AllFailuresCarried ==
  InHook /\ probe.thrown # <<>> =>
    /\ \A f \in Fields : FailedStep[f] # "running"
    /\ \A f \in probe.fields : probe.builtin[f] \in {"settled", "threw"}
    /\ Range(probe.thrown) = {f \in Fields : FailedStep[f] = "threw"}
    /\ Len(probe.thrown) = Cardinality({f \in Fields : FailedStep[f] = "threw"})

\* two field hooks of one step failed, a sibling settled, and the failure
\* was raised
C21_Witness ==
  /\ InHook
  /\ Len(probe.thrown) = 2
  /\ \E f \in Fields : FailedStep[f] = "settled"

(***************************************************************************)
(* The access-controlled reads on their own: the lookup of one id, of a    *)
(* sequence of ids, the list query and its count, for every storage,       *)
(* every declarative access and every where clause of the caller.          *)
(***************************************************************************)
ProbeWhere == {w \in ProbeAccess : w.tag = "Filter" /\ w.id_not = 0 /\ ~w.has_not_in}
WellFormed(where) ==
  /\ where.has_in \/ where.id_in = {}
  /\ where.has_not_in \/ where.id_not_in = {}

CallGetAccessControlledItem ==
  /\ probe.fn = "none"
  /\ \E id \in 1 .. (MaxStored + 1), access \in ProbeAccess :
       /\ WellFormed(access)
       /\ probe' = [fn |-> "getAccessControlledItem", id |-> id, access |-> access,
                    out |-> GetAccessControlledItem(store, id, access, "read",
                                                    gqlNames("itemQuery"))]
  /\ UNCHANGED <<store, req, writes, mutationStates, afterSeq>>

\* listQuery past its checkListAccess
CallListQuery ==
  /\ probe.fn = "none"
  /\ \E args \in ProbeWhere, access \in ProbeAccess :
       /\ WellFormed(access) /\ WellFormed(args)
       /\ LET where == mergeWhereClause(args, access)
          IN probe' = [fn |-> "listQuery", args |-> args, access |-> access,
                       out |-> [items |-> itemsQuery(store, where, 0),
                                calls |-> <<AdapterCall("itemsQuery", where, 0)>>]]
  /\ UNCHANGED <<store, req, writes, mutationStates, afterSeq>>

\* the getCount of listQueryMeta past its checkListAccess
CallListQueryMeta ==
  /\ probe.fn = "none"
  /\ \E args \in ProbeWhere, access \in ProbeAccess :
       /\ WellFormed(access) /\ WellFormed(args)
       /\ LET where == mergeWhereClause(args, access)
          IN probe' = [fn |-> "listQueryMeta", args |-> args, access |-> access,
                       out |-> [count |-> Len(itemsQuery(store, where, 0)),
                                calls |-> <<AdapterCall("itemsQueryMeta", where, 0)>>]]
  /\ UNCHANGED <<store, req, writes, mutationStates, afterSeq>>

NextLookup ==
  \/ CallGetAccessControlledItem
  \/ CallGetAccessControlledItems
  \/ CallListQuery
  \/ CallListQueryMeta

SpecLookup == Init /\ [][NextLookup]_vars

\* the id keys of the filter exclude the id
Excludes(access, id) ==
  \/ access.id # 0 /\ access.id # id
  \/ access.id_not = id
  \/ access.has_in /\ id \notin access.id_in
  \/ access.has_not_in /\ id \in access.id_not_in

\* C22: getAccessControlledItem raises AccessDeniedError without any
\* ListAdapter call when an id constraint of the access filter (id, id_not,
\* id_in, id_not_in) excludes the requested id; under Allow it fetches the
\* id with findById.
C22_ExcludedWithoutStorage ==
  probe.fn = "getAccessControlledItem" =>
    /\ (probe.access.tag = "Filter" /\ Excludes(probe.access, probe.id))
         => /\ probe.out.error.kind = "AccessDeniedError"
            /\ probe.out.calls = <<>>
            /\ probe.out.item = 0
    /\ probe.access.tag = "Allow"
         => probe.out.calls
              = <<AdapterCall("findById", [NoWhere EXCEPT !.id = probe.id], 0)>>

\* the id of a stored item was excluded by id_not_in alone and refused
C22_Witness ==
  /\ probe.fn = "getAccessControlledItem"
  /\ store[probe.id] # NoItem
  /\ probe.access.tag = "Filter"
  /\ probe.access.has_not_in /\ probe.id \in probe.access.id_not_in
  /\ probe.access.id = 0 /\ probe.access.id_not = 0 /\ ~probe.access.has_in
  /\ probe.out.error.kind = "AccessDeniedError"
  /\ probe.out.calls = <<>>

\* the ids the id and id_in keys of a filter allow, the ids its id_not and
\* id_not_in keys disallow
AllowedIds(access) ==
  {i \in 1 .. (MaxStored + 1) : (access.id = 0 \/ access.id = i)
                                 /\ (~access.has_in \/ i \in access.id_in)}
DisallowedIds(access) ==
  (IF access.id_not # 0 THEN {access.id_not} ELSE {})
    \cup (IF access.has_not_in THEN access.id_not_in ELSE {})

\* C23: getAccessControlledItems returns an empty list without any
\* ListAdapter call when ids is empty, when no requested id is in the
\* filter's allowed id set, or when every requested id is in the filter's
\* disallowed id set; in every other case it issues exactly one query.
C23_ShortCircuit ==
  probe.fn = "getAccessControlledItems" =>
    IF \/ probe.ids = <<>>
       \/ /\ probe.access.tag = "Filter"
          /\ \/ AllowedIds(probe.access) \cap Range(probe.ids) = {}
             \/ Range(probe.ids) \subseteq DisallowedIds(probe.access)
    THEN probe.out.items = <<>> /\ probe.out.calls = <<>>
    ELSE Len(probe.out.calls) = 1 /\ probe.out.calls[1].fn = "itemsQuery"

\* the same, for the filters that do not hold both id and id_in
C23_ShortCircuitWithoutIdAndIdIn ==
  (probe.fn = "getAccessControlledItems" /\ ~(probe.access.id # 0 /\ probe.access.has_in))
    => C23_ShortCircuit

\* the request's own condition of a read: the id, the ids, the where
Requested(i) ==
  IF probe.fn = "getAccessControlledItem" THEN i = probe.id
  ELSE IF probe.fn = "getAccessControlledItems" THEN i \in Range(probe.ids)
  ELSE Matches(store, i, probe.args)

\* C24: an access filter is never partially applied: every storage query
\* of getAccessControlledItem, getAccessControlledItems, listQuery and the
\* meta count under a filter holds all of the filter's conditions together
\* with the request's own, so it selects only items that meet the whole
\* filter and the request's id(s) or where.
C24_WholeFilterInEveryQuery ==
  (probe.fn # "none" /\ probe.access.tag = "Filter") =>
    \A k \in 1 .. Len(probe.out.calls) : \A i \in ItemIds :
      Matches(store, i, probe.out.calls[k].where)
        => Matches(store, i, probe.access) /\ Requested(i)

\* the same, but for getAccessControlledItems under a filter holding both
\* id and id_in
C24_WholeFilterWithoutIdAndIdIn ==
  ~(probe.fn = "getAccessControlledItems" /\ probe.access.id # 0 /\ probe.access.has_in)
    => C24_WholeFilterInEveryQuery

(***************************************************************************)
(* Backlink registration.                                                   *)
(***************************************************************************)
\* C25 as stated: every write, create, update or delete, invokes
\* registerBacklink for the relationship field once the relationship
\* fields are resolved, and the work is queued on the mutationState.
C25_EveryWriteRegisters ==
  \A w \in Started :
    (HasStep(w, "resolveInput") \/ HasStep(w, "validateDelete"))
      => /\ HasStep(w, "registerBacklinks")
         /\ writes[w].registered \in {"queued", "flushed"}

\* C25 amended: a delete, and only a delete, invokes registerBacklink for
\* the relationship field, as its first step, before validateDelete; the
\* work is queued on the mutationState of the delete and performed by a
\* later resolveBacklinks of that state, not on the spot.  A create or an
\* update never calls _registerBacklinks.
C25_OnlyDeleteRegisters ==
  \A w \in Started :
    /\ writes[w].kind # "delete"
         => ~HasStep(w, "registerBacklinks") /\ writes[w].registered = "none"
    /\ writes[w].kind = "delete"
         => /\ writes[w].steps # <<>> => writes[w].steps[1] = "registerBacklinks"
            /\ HasStep(w, "registerBacklinks") <=> writes[w].registered # "none"
            /\ writes[w].registered = "queued"
                 => w \in Range(mutationStates[writes[w].ms].queues)
            /\ writes[w].registered = "flushed"
                 => /\ \E x \in SameState(w) : HasStep(x, "resolveBacklinks")
                    /\ HasStep(w, "persist")
                    /\ w \notin Range(mutationStates[writes[w].ms].queues)

\* a delete registered its backlink, was persisted, and the queued work
\* was performed by resolveBacklinks
C25_Witness ==
  \E w \in Started :
    /\ writes[w].kind = "delete"
    /\ writes[w].registered = "flushed"
    /\ HasStep(w, "resolveBacklinks")

\* a create went through its steps without registering a backlink
C25_WitnessCreate ==
  \E w \in Started :
    /\ writes[w].kind = "create"
    /\ writes[w].pc = "done"
    /\ ~HasStep(w, "registerBacklinks")

DeleteSteps ==
  <<"registerBacklinks", "validateDelete", "beforeDelete", "persist",
    "resolveBacklinks", "push", "return">>

\* C27, the state part: a delete has passed the list access check and the
\* access-controlled lookup, which found its item; its steps are the first
\* ones of the fixed order; a delete whose validateDelete or beforeDelete
\* failed stopped there, with its item still stored; its after hook is
\* pushed and invoked only once adapter.delete has returned.
C27_StepsInOrder ==
  \A w \in Started :
    writes[w].kind = "delete" =>
      /\ req.access.tag # "Deny"
      /\ req.calls # <<>>
      /\ writes[w].existingItem \in Range(req.found)
      /\ req.before[writes[w].existingItem] # NoItem
      /\ Len(writes[w].steps) <= Len(DeleteSteps)
      /\ writes[w].steps = SubSeq(DeleteSteps, 1, Len(writes[w].steps))
      /\ HasStep(w, "beforeDelete") => validateDelete(writes[w].verdict, "delete") = NoError
      /\ (writes[w].pc = "failed" /\ LastStep(w) \in {"validateDelete", "beforeDelete"})
           => /\ ~writes[w].persisted
              /\ store[writes[w].existingItem] = req.before[writes[w].existingItem]
      /\ writes[w].pc = "failed"
           => \/ LastStep(w) \in {"validateDelete", "beforeDelete", "persist"}
              \/ FailedInDrain(w) /\ writes[w].isRootMutation
      /\ (HasStep(w, "push") \/ InAfter(w))
           => /\ writes[w].persisted
              /\ store[writes[w].existingItem] = NoItem
      /\ InAfter(w) => HasStep(w, "push")

\* C27, the step part: a delete that has failed takes no further step and
\* its item is not removed afterwards.
C27_FailedDeleteStops ==
  \A w \in Started :
    (writes[w].kind = "delete" /\ writes[w].pc = "failed")
      => /\ writes'[w] = writes[w]
         /\ ~writes[w].persisted => store'[writes[w].existingItem] = store[writes[w].existingItem]

\* C27: every delete takes list access check, access-controlled lookup,
\* backlink registration, validateDelete, beforeDelete, adapter.delete and
\* the push of afterDelete in this order; a validateDelete or beforeDelete
\* failure means adapter.delete is not called for the item, and afterDelete
\* runs only after the delete was persisted.
C27_OrderOfDelete == []C27_StepsInOrder /\ [][C27_FailedDeleteStops]_vars

\* a delete went through every step and its afterDelete ran
C27_Witness ==
  \E w \in Started :
    /\ writes[w].kind = "delete"
    /\ writes[w].steps = DeleteSteps
    /\ InAfter(w)

\* a delete failed in validateDelete and its item is still stored
C27_WitnessFailure ==
  \E w \in Started :
    /\ writes[w].kind = "delete"
    /\ writes[w].pc = "failed"
    /\ writes[w].steps = SubSeq(DeleteSteps, 1, 2)
    /\ store[writes[w].existingItem] # NoItem

(***************************************************************************)
(* The originalInput of the hooks of a create or update.                    *)
(***************************************************************************)
HooksGiven(w, hooks) ==
  {k \in 1 .. Len(writes[w].hookInputs) : writes[w].hookInputs[k].hook \in hooks}

\* C28: every beforeChange and afterChange hook of a create or update is
\* given as originalInput the input data passed to the mutation, the value
\* the resolveInput and validateInput hooks of the write are given.
C28_OriginalInputIsTheData ==
  \A w \in Started :
    \A k \in HooksGiven(w, {"resolveInput", "validateInput", "beforeChange", "afterChange"}) :
      writes[w].hookInputs[k].originalInput = JsObject(writes[w].data)

\* what the code does: resolveInput and validateInput are given the data,
\* beforeChange and afterChange the name of the operation
C28_OriginalInputIsTheOperation ==
  \A w \in Started :
    /\ \A k \in HooksGiven(w, {"resolveInput", "validateInput"}) :
         writes[w].hookInputs[k].originalInput = JsObject(writes[w].data)
    /\ \A k \in HooksGiven(w, {"beforeChange", "afterChange"}) :
         writes[w].hookInputs[k].originalInput = JsString(writes[w].kind)
    /\ InAfter(w) /\ writes[w].kind # "delete" => HooksGiven(w, {"afterChange"}) # {}
    /\ HasStep(w, "beforeChange") => HooksGiven(w, {"beforeChange"}) # {}

(***************************************************************************)
(* The required-field check by operation.                                   *)
(***************************************************************************)
\* the write was rejected by the required-field check
RejectedAsRequired(w) ==
  /\ writes[w].pc = "failed"
  /\ LastStep(w) = "validateInput"
  /\ writes[w].error.kind = "ValidationFailureError"
  /\ \E f \in Fields : writes[w].error.data.messages[1] = Msg("isRequired", f)

NullRequired(data) ==
  {f \in Fields : isRequired(f) /\ ~isRelationship(f) /\ data[f] \in {UNDEF, NULL}}

\* C29: the required-field check rejects a create whenever the resolved
\* value of a required non-relationship field is missing or null; it
\* rejects an update only when the key of such a field is in the resolved
\* data with a null or undefined value: an update that omits a required
\* field passes the check and, nothing else failing, is persisted.
C29_RequiredCheckByOperation ==
  \A w \in Started :
    HasStep(w, "validateInput") =>
      /\ writes[w].kind = "create"
           => (RejectedAsRequired(w) <=> MissingRequired(writes[w].resolvedData) # {})
      /\ writes[w].kind = "update"
           => /\ RejectedAsRequired(w) <=> NullRequired(writes[w].resolvedData) # {}
              /\ (NullRequired(writes[w].resolvedData) = {} /\ writes[w].verdict = NoVerdict)
                   => ~(writes[w].pc = "failed" /\ LastStep(w) = "validateInput")
              /\ (HasStep(w, "persist") /\ LastStep(w) # "persist")
                   => /\ writes[w].persisted
                      /\ writes[w].result # 0 => store[writes[w].result] # NoItem

\* an update that omits a required field was persisted
C29_Witness ==
  \E w \in Started :
    /\ writes[w].kind = "update"
    /\ \E f \in Fields : isRequired(f) /\ ~isRelationship(f) /\ writes[w].resolvedData[f] = ABSENT
    /\ writes[w].persisted
    /\ writes[w].result # 0
    /\ store[writes[w].result] # NoItem
    /\ writes[w].pc = "done"

\* an update that holds a null required field was rejected
C29_WitnessNull ==
  \E w \in Started :
    /\ writes[w].kind = "update"
    /\ NullRequired(writes[w].resolvedData) # {}
    /\ RejectedAsRequired(w)

(***************************************************************************)
(* The JSON adapter on its own.  probe holds the database as the adapter   *)
(* reads it: whether it holds the list's key and, if so, the items under   *)
(* it in file order; the ids cuid() has given; the last call and what it   *)
(* returned.  A missing key of an item or of a data object is 0 (id) or    *)
(* ABSENT (name).                                                           *)
(***************************************************************************)
MaxJsonItems == 2

JsonItem(id, name) == [id |-> id, name |-> name]
JsonNull == JsonItem(0, "null")
NoList == [present |-> FALSE, items |-> <<>>]
JsonList(items) == [present |-> TRUE, items |-> items]
JsonResult(threw, value, list) == [threw |-> threw, value |-> value, list |-> list]

\* the contents the database file may have when the adapter connects: no
\* key for the list (read() gives {} for an unreadable file too), or items
\* with ids of their own
JsonContents ==
  {NoList} \cup
  {JsonList([k \in 1 .. n |-> JsonItem(k, "a")]) : n \in 0 .. MaxJsonItems}

\* items.findIndex(item => item.id === id), 0 for -1
findIndex(items, id) ==
  IF \E k \in 1 .. Len(items) : items[k].id = id
  THEN CHOOSE k \in 1 .. Len(items) :
         items[k].id = id /\ \A j \in 1 .. (k - 1) : items[j].id # id
  ELSE 0

\* _create(input): { ...input, id: cuid() } is appended
jsonCreate(list, input, newId) ==
  IF ~list.present THEN JsonResult(TRUE, JsonNull, list)
  ELSE LET data == [input EXCEPT !.id = newId]
       IN JsonResult(FALSE, data, JsonList(Append(list.items, data)))

\* _delete(id): the items with another id are written back, the last item
\* with the id is returned, null if there is none
jsonDelete(list, id) ==
  IF ~list.present THEN JsonResult(TRUE, JsonNull, list)
  ELSE LET kept == SelectSeq(list.items, LAMBDA item : item.id # id)
           gone == SelectSeq(list.items, LAMBDA item : item.id = id)
       IN JsonResult(FALSE, IF gone = <<>> THEN JsonNull ELSE gone[Len(gone)],
                     JsonList(kept))

\* _update(id, data): data takes the place of the item
jsonUpdate(list, id, data) ==
  IF ~list.present THEN JsonResult(TRUE, JsonNull, list)
  ELSE LET itemIndex == findIndex(list.items, id)
       IN IF itemIndex = 0 THEN JsonResult(FALSE, JsonNull, list)
          ELSE JsonResult(FALSE, data, JsonList([list.items EXCEPT ![itemIndex] = data]))

\* _findById(id)
jsonFindById(list, id) ==
  IF ~list.present THEN JsonResult(TRUE, JsonNull, list)
  ELSE LET itemIndex == findIndex(list.items, id)
       IN JsonResult(FALSE, IF itemIndex = 0 THEN JsonNull ELSE list.items[itemIndex], list)

InJson == probe.fn = "json"
JsonIds == 1 .. (2 * MaxJsonItems)

JsonAfter(op, id, r) ==
  [probe EXCEPT !.op = op, !.id = id, !.before = probe.list, !.list = r.list,
                !.threw = r.threw, !.value = r.value]

\* _connect: the adapter reads what the file holds
JsonConnect ==
  /\ probe.fn = "none"
  /\ \E list \in JsonContents :
       probe' = [fn |-> "json", list |-> list, before |-> list, created |-> 0,
                 op |-> "connect", id |-> 0, threw |-> FALSE, value |-> JsonNull]
  /\ UNCHANGED <<store, req, writes, mutationStates, afterSeq>>

JsonCreate ==
  /\ InJson
  /\ probe.created < MaxJsonItems
  /\ \E name \in {"a", "b"} :
       LET newId == MaxJsonItems + probe.created + 1
           r == jsonCreate(probe.list, JsonItem(0, name), newId)
       IN probe' = [JsonAfter("create", newId, r) EXCEPT !.created = @ + 1]
  /\ UNCHANGED <<store, req, writes, mutationStates, afterSeq>>

JsonDelete ==
  /\ InJson
  /\ \E id \in JsonIds : probe' = JsonAfter("delete", id, jsonDelete(probe.list, id))
  /\ UNCHANGED <<store, req, writes, mutationStates, afterSeq>>

JsonUpdate ==
  /\ InJson
  /\ \E id \in JsonIds, name \in {ABSENT, "b"}, own \in BOOLEAN :
       probe' = JsonAfter("update", id,
                          jsonUpdate(probe.list, id, JsonItem(IF own THEN id ELSE 0, name)))
  /\ UNCHANGED <<store, req, writes, mutationStates, afterSeq>>

JsonFindById ==
  /\ InJson
  /\ \E id \in JsonIds : probe' = JsonAfter("findById", id, jsonFindById(probe.list, id))
  /\ UNCHANGED <<store, req, writes, mutationStates, afterSeq>>

\* dropDatabase(): write({})
JsonDropDatabase ==
  /\ InJson
  /\ probe' = [probe EXCEPT !.op = "dropDatabase", !.id = 0, !.before = probe.list,
                            !.list = NoList, !.threw = FALSE, !.value = JsonNull]
  /\ UNCHANGED <<store, req, writes, mutationStates, afterSeq>>

NextJson ==
  \/ JsonConnect
  \/ JsonCreate
  \/ JsonDelete
  \/ JsonUpdate
  \/ JsonFindById
  \/ JsonDropDatabase

SpecJson == Init /\ [][NextJson]_vars

\* the last call was delete, update or findById of an id no item had
OfMissingId ==
  /\ InJson
  /\ probe.op \in {"delete", "update", "findById"}
  /\ \A k \in 1 .. Len(probe.before.items) : probe.before.items[k].id # probe.id

\* C30: delete(id), update(id, data) and findById(id) of an id that is not
\* stored return null instead of raising, and the stored items of the list
\* are the same afterwards as before.
C30_MissingIdReturnsNull ==
  OfMissingId =>
    /\ ~probe.threw
    /\ probe.value = JsonNull
    /\ probe.list = probe.before

\* the same, when the database holds the key of the list
C30_MissingIdOfPresentList ==
  (OfMissingId /\ probe.before.present) => C30_MissingIdReturnsNull

(***************************************************************************)
(* A request that races with the delete of another request.                 *)
(***************************************************************************)
\* _deleteSingle of another request: its adapter.delete removes the item a
\* write of this request looked up, before that write reaches the storage
OtherRequestDeletes(w) ==
  /\ w \in Started
  /\ writes[w].kind \in {"update", "delete"}
  /\ writes[w].pc = "persist"
  /\ writes[w].existingItem # 0
  /\ store[writes[w].existingItem] # NoItem
  /\ store' = [store EXCEPT ![writes[w].existingItem] = NoItem]
  /\ UNCHANGED <<req, writes, mutationStates, afterSeq, probe>>

NextRace ==
  \/ Next
  \/ \E w \in Started : OtherRequestDeletes(w)

SpecRace == Init /\ [][NextRace]_vars

\* the storage write of w returned null although the lookup had found the
\* item of the id that w writes
WroteNull(w) ==
  /\ writes[w].kind \in {"update", "delete"}
  /\ writes[w].existingItem # 0
  /\ writes[w].id = writes[w].existingItem
  /\ writes[w].persisted
  /\ writes[w].result = 0

\* C31: when the storage write of an update or of a delete returns null
\* because another request removed the item after the lookup, the mutation
\* raises no error of its own: it fails by nothing but a user hook that throws
C31_NullWriteRaisesNothing ==
  \A w \in Started : WroteNull(w) => writes[w].error # TypeError

\* the same, for the delete alone
C31_NullDeleteRaisesNothing ==
  \A w \in Started :
    (WroteNull(w) /\ writes[w].kind = "delete") => writes[w].error # TypeError

\* a delete whose storage write returned null has returned null to its caller
C31_WitnessDelete ==
  \E w \in Started :
    /\ WroteNull(w)
    /\ writes[w].kind = "delete"
    /\ writes[w].pc = "done"
    /\ req.status = "returned"
    /\ req.result = <<0>>

(***************************************************************************)
(* The constituents of updateManyMutation.                                  *)
(***************************************************************************)
\* the constituent updates of an updateManyMutation request
ConstituentUpdates ==
  IF req.entry = "updateManyMutation"
  THEN {w \in Started : writes[w].parent = 0 /\ writes[w].kind = "update"}
  ELSE {}

\* C32: updateManyMutation performs no hook and no storage write for an id
\* that getAccessControlledItems did not return
C32_OnlyAccessibleIdsUpdated ==
  \A w \in ConstituentUpdates : writes[w].id \in Range(req.found)

\* every constituent is handed an item that getAccessControlledItems returned
C32_OnlyFoundItemsGiven ==
  \A w \in ConstituentUpdates : writes[w].existingItem \in Range(req.found)

\* a constituent called adapter.update for an id the lookup did not return
C32_Witness ==
  \E w \in ConstituentUpdates :
    /\ writes[w].id \notin Range(req.found)
    /\ writes[w].existingItem \in Range(req.found)
    /\ writes[w].persisted

\* C33: every constituent update of updateManyMutation is given the
\* existingItem of the id it updates and the data supplied for that id
C33_ConstituentsPaired ==
  \A w \in ConstituentUpdates :
    /\ writes[w].existingItem = writes[w].id
    /\ \E k \in 1 .. Len(req.ids) :
         req.ids[k] = writes[w].id /\ req.inputs[k] = writes[w].data

\* the data of every constituent is the data supplied for its id
C33_DataOfTheId ==
  \A w \in ConstituentUpdates :
    \E k \in 1 .. Len(req.ids) :
      req.ids[k] = writes[w].id /\ req.inputs[k] = writes[w].data

\* a constituent went through its hooks with the item of another id
C33_Witness ==
  \E w \in ConstituentUpdates :
    /\ writes[w].existingItem # writes[w].id
    /\ writes[w].existingItem # 0
    /\ HasStep(w, "beforeChange")

(***************************************************************************)
(* The createdPromise of _createSingle.                                     *)
(***************************************************************************)
\* C34: when _createSingle has terminated, by its return or by any failure,
\* the createdPromise it made has been resolved or rejected
C34_HandleSettledAtTermination ==
  \A w \in Started :
    (writes[w].kind = "create" /\ Settled(w)) => writes[w].handle \in {"resolved", "rejected"}

\* the same, for the creates that reached adapter.create
C34_HandleSettledByStorageCreate ==
  \A w \in Started :
    (writes[w].kind = "create" /\ HasStep(w, "persist"))
      => writes[w].handle \in {"resolved", "rejected"}

\* a nested create still waits for the item of a create that failed before
\* adapter.create, and the request has failed
C34_WitnessSuspended ==
  \E w \in Started, c \in Started :
    /\ writes[w].kind = "create"
    /\ writes[w].pc = "failed"
    /\ writes[w].handle = "pending"
    /\ writes[c].parent = w
    /\ writes[c].backlink = "waiting"
    /\ req.status = "failed"

(***************************************************************************)
(* Failures of the root and the after-change stack.                         *)
(***************************************************************************)
\* the write an entry point started for the nested write x
RECURSIVE RootOf(_)
RootOf(x) == IF writes[x].parent = 0 THEN x ELSE RootOf(writes[x].parent)

\* the writes nested, at any depth, in the write w of an entry point
NestedIn(w) == {x \in Started : x # w /\ RootOf(x) = w}

\* the mutation of the root w threw after a write nested in it was persisted
FailedAfterNested(w) ==
  /\ writes[w].parent = 0
  /\ writes[w].pc = "failed"
  /\ ~FailedInDrain(w)
  /\ \E c \in NestedIn(w) : writes[c].persisted

\* the callbacks the writes nested in w pushed are still on the stack
CallbacksLeft(w) ==
  \A x \in NestedIn(w) : writes[x].pc = "done" => x \in Range(StackOf(x))

C35_WitnessBatch ==
  \E w \in Started :
    /\ FailedAfterNested(w)
    /\ afterSeq # <<>>

\* a callback raised while the root w drained the stack
RaisedInDrain(w) == HasStep(w, "push") /\ writes[w].error.kind # "none"

\* the callback called last among those of the mutationState of w
LastCalled(w) ==
  LET called == {k \in 1 .. Len(afterSeq) : writes[afterSeq[k]].ms = writes[w].ms}
  IN afterSeq[CHOOSE k \in called : \A j \in called : j <= k]

C36_FailedByTheCallback ==
  \A w \in Started :
    RaisedInDrain(w)
      => /\ writes[w].parent = 0
         /\ writes[w].pc = "failed"
         /\ \E x \in SameState(w) : InAfter(x)
         /\ writes[w].error \in afterHookOutcomes(writes[LastCalled(w)]) \ {NoError}
         /\ req.status # "returned"
         /\ (req.status = "failed" /\ req.entry \in SingleEntries) => req.error = writes[w].error
         /\ writes[w].persisted
         /\ \A x \in NestedIn(w) : writes[x].persisted /\ writes[x].pc = "done"
         /\ \A x \in Range(StackOf(w)) : ~InAfter(x)

C36_StackLeftAlone ==
  \A w \in Started :
    RaisedInDrain(w)
      => /\ mutationStates'[writes[w].ms].afterChangeStack = StackOf(w)
         /\ writes'[w] = writes[w]

\* C36: when a callback raises while the root drains the after-change
\* stack, the root mutation fails with the error of that callback, every
\* write of the root is persisted all the same, and the callbacks still on
\* the stack are never invoked
C36_CallbackFailureInDrain == []C36_FailedByTheCallback /\ [][C36_StackLeftAlone]_vars

\* the callback of the root raised during the drain: the request has
\* failed, and the callback of a nested write is still on the stack
C36_Witness ==
  \E w \in Started :
    /\ RaisedInDrain(w)
    /\ writes[w].error = HookError
    /\ NestedIn(w) # {}
    /\ StackOf(w) # <<>>
    /\ req.status = "failed"

(***************************************************************************)
(* The constituents of a batch.                                             *)
(***************************************************************************)
\* the steps of the write w: the promise of _nestedMutation goes on for as
\* long as it has a continuation to run
StepOfWrite(w) ==
  \/ \E input \in SmallInputs : ResolveNestedOperations(w, input)
  \/ ResolveRelationship(w)
  \/ ResolveInput(w)
  \/ ValidateInput(w)
  \/ BeforeChange(w)
  \/ AdapterCreate(w)
  \/ AdapterUpdate(w)
  \/ RegisterBacklinks(w)
  \/ ValidateDelete(w)
  \/ BeforeDelete(w)
  \/ AdapterDelete(w)
  \/ ResolveBacklinks(w)
  \/ PushAfterHook(w)
  \/ PopAfterHook(w)
  \/ NestedMutationReturn(w)

\* the transport calls a batch entry point with two entries, under full
\* access
CreateManyOfTwo ==
  /\ req.entry = "none"
  /\ \E inputs \in SeqsUpTo(SmallInputs, 2) :
       /\ Len(inputs) = 2
       /\ SumInputs(inputs) <= MaxWrites
       /\ createManyMutation(AllowAccess, {}, inputs)

UpdateManyOfTwo ==
  /\ req.entry = "none"
  /\ \E inputs \in SeqsUpTo(SmallInputs, 2) :
       /\ Len(inputs) = 2
       /\ SumInputs(inputs) <= MaxWrites
       /\ updateManyMutation(AllowAccess, {}, <<1, 2>>, inputs)

DeleteManyOfTwo ==
  /\ req.entry = "none"
  /\ \E verdict \in Verdicts : deleteManyMutation(AllowAccess, <<1, 2>>, verdict)

\* a request that is a batch
NextBatch ==
  \/ CreateManyOfTwo
  \/ UpdateManyOfTwo
  \/ DeleteManyOfTwo
  \/ \E w \in Started : StepOfWrite(w)
  \/ ReturnToCaller

\* the event loop runs every pending continuation, and Promise.all settles
SpecBatch ==
  /\ Init
  /\ [][NextBatch]_vars
  /\ \A w \in 1 .. MaxWrites : WF_vars(StepOfWrite(w))
  /\ WF_vars(ReturnToCaller)

\* the batch call has failed
BatchFailed == req.entry \in BatchEntries /\ req.status = "failed" /\ writes # <<>>

\* every constituent of the batch has settled
ConstituentsSettled == \A w \in Started : writes[w].parent = 0 => Settled(w)

\* a constituent that failed has failed on an error of its own, one that
\* returned has persisted its write and its after hook has run
C37_OwnOutcome ==
  BatchFailed =>
    \A w \in Started :
      writes[w].parent = 0 =>
        /\ writes[w].pc = "failed" => writes[w].error.kind # "none"
        /\ writes[w].pc = "done" => (writes[w].persisted /\ InAfter(w) /\ HasStep(w, "return"))

\* the failure of the batch call leaves the constituents as they are
C37_ReturnCancelsNothing ==
  (req.status = "running" /\ req'.status = "failed")
    => (writes' = writes /\ mutationStates' = mutationStates /\ store' = store)

\* C37: in a root batch the failure of one constituent fails the batch
\* call and cancels no sibling: every sibling runs to its own completion,
\* its storage write persists and its own after hook runs
C37_SiblingsRunToCompletion ==
  /\ []C37_OwnOutcome
  /\ [][C37_ReturnCancelsNothing]_vars
  /\ (BatchFailed ~> ConstituentsSettled)

\* the batch call has failed with the error of one constituent, and a
\* sibling has persisted its write, changed storage and run its after hook
C37_Witness ==
  \E w \in Started, x \in Started :
    /\ BatchFailed
    /\ w # x
    /\ writes[w].parent = 0
    /\ writes[x].parent = 0
    /\ writes[w].pc = "failed"
    /\ req.error = writes[w].error
    /\ writes[x].pc = "done"
    /\ writes[x].persisted
    /\ writes[x].result # 0
    /\ store[writes[x].result] # req.before[writes[x].result]
    /\ InAfter(x)

\* the batch call has failed while a sibling of the failed constituent has
\* not reached storage yet
C37_WitnessInFlight ==
  \E w \in Started, x \in Started :
    /\ BatchFailed
    /\ writes[w].parent = 0
    /\ writes[x].parent = 0
    /\ writes[w].pc = "failed"
    /\ writes[x].pc \in {"validateInput", "beforeChange", "validateDelete", "beforeDelete"}

\* the last call was an update of an id an item had, and it returned
UpdatedStored ==
  /\ InJson
  /\ probe.op = "update"
  /\ ~probe.threw
  /\ findIndex(probe.before.items, probe.id) # 0

\* the update left the number of items and every other item as they were
OthersUnchanged ==
  /\ Len(probe.list.items) = Len(probe.before.items)
  /\ \A k \in 1 .. Len(probe.before.items) :
       k # findIndex(probe.before.items, probe.id) => probe.list.items[k] = probe.before.items[k]

\* C39: after update(id, data) succeeded for a stored id, findById(id)
\* returns the updated item, which keeps its id, the number of stored items
\* is unchanged and every other item is unchanged
C39_UpdatedItemFoundById ==
  UpdatedStored =>
    /\ jsonFindById(probe.list, probe.id).value = probe.value
    /\ jsonFindById(probe.list, probe.id).value.id = probe.id
    /\ OthersUnchanged

\* the same without the lookup by id
C39_OthersUnchanged == UpdatedStored => OthersUnchanged

\* the same, when the data of the update carries the id
C39_WhenDataCarriesId ==
  (UpdatedStored /\ probe.value.id = probe.id) => C39_UpdatedItemFoundById

\* an update of a stored id with data that has no id key has returned
C39_Witness ==
  /\ UpdatedStored
  /\ probe.value.id = 0
  /\ jsonFindById(probe.list, probe.id).value = JsonNull

(***************************************************************************)
(* Two write operations of the JSON adapter at the same time.  probe holds *)
(* the database file (db, the items under the list keys A and B) and the   *)
(* two calls: each reads the items of its list, computes the new items,    *)
(* reads the whole file again in writeList and writes the file back.       *)
(***************************************************************************)
JsonKeys == {"A", "B"}

\* a call of _create(input), _update(id, data) or _delete(id) of the list
\* adapter of key; newId is the id cuid() gives a create
JsonCall(op, key, id, name, newId) ==
  [op |-> op, key |-> key, id |-> id, name |-> name, newId |-> newId, pc |-> "read",
   toWrite |-> NoList, lists |-> [k \in JsonKeys |-> NoList],
   value |-> JsonNull, threw |-> FALSE, wrote |-> FALSE]

\* the calls the i-th caller may make
JsonCalls(i) ==
  {JsonCall("create", key, 0, "b", 2 + i) : key \in JsonKeys}
  \cup {JsonCall(op, key, id, "b", 0) :
          op \in {"update", "delete"}, key \in JsonKeys, id \in 1 .. 2}

\* what the call computes from the items it read
jsonApply(call, list) ==
  IF call.op = "create" THEN jsonCreate(list, JsonItem(0, call.name), call.newId)
  ELSE IF call.op = "delete" THEN jsonDelete(list, call.id)
  ELSE jsonUpdate(list, call.id, JsonItem(call.id, call.name))

InJsonRace == probe.fn = "jsonRace"

\* two callers call the adapter of a database that holds both lists
JsonCallTwo ==
  /\ probe.fn = "none"
  /\ \E first \in JsonCalls(1), second \in JsonCalls(2) :
       probe' = [fn |-> "jsonRace",
                 db |-> [k \in JsonKeys |->
                           JsonList(<<JsonItem(IF k = "A" THEN 1 ELSE 2, "a")>>)],
                 calls |-> <<first, second>>, overlapped |-> FALSE]
  /\ UNCHANGED <<store, req, writes, mutationStates, afterSeq>>

\* const items = await this._read(): readList(key) reads the file; the new
\* items are computed; _update of an id that is not there returns null
JsonReadList(i) ==
  /\ InJsonRace
  /\ probe.calls[i].pc = "read"
  /\ LET call == probe.calls[i]
         r == jsonApply(call, probe.db[call.key])
         returns == r.threw \/ (call.op = "update" /\ r.value = JsonNull)
     IN probe' = [probe EXCEPT
                    !.calls[i].pc = IF returns THEN "done" ELSE "writeList",
                    !.calls[i].toWrite = r.list,
                    !.calls[i].value = r.value,
                    !.calls[i].threw = r.threw,
                    !.overlapped = @ \/ probe.calls[3 - i].pc \in {"writeList", "write"}]
  /\ UNCHANGED <<store, req, writes, mutationStates, afterSeq>>

\* writeList: const lists = await this.read()
JsonWriteListRead(i) ==
  /\ InJsonRace
  /\ probe.calls[i].pc = "writeList"
  /\ probe' = [probe EXCEPT !.calls[i].pc = "write", !.calls[i].lists = probe.db]
  /\ UNCHANGED <<store, req, writes, mutationStates, afterSeq>>

\* writeList: lists[listKey] = items; return this.write(lists): the file
\* is replaced by the lists read before, with the items of the key
JsonWriteListWrite(i) ==
  /\ InJsonRace
  /\ probe.calls[i].pc = "write"
  /\ probe' = [probe EXCEPT
                 !.calls[i].pc = "done", !.calls[i].wrote = TRUE,
                 !.db = [probe.calls[i].lists EXCEPT
                           ![probe.calls[i].key] = probe.calls[i].toWrite]]
  /\ UNCHANGED <<store, req, writes, mutationStates, afterSeq>>

NextJsonRace ==
  \/ JsonCallTwo
  \/ \E i \in 1 .. 2 : JsonReadList(i)
  \/ \E i \in 1 .. 2 : JsonWriteListRead(i)
  \/ \E i \in 1 .. 2 : JsonWriteListWrite(i)

SpecJsonRace == Init /\ [][NextJsonRace]_vars

\* both calls have returned and they are not an update or delete of the
\* same item
BothCompleted ==
  /\ InJsonRace
  /\ \A i \in 1 .. 2 : probe.calls[i].pc = "done" /\ ~probe.calls[i].threw
  /\ ~ /\ probe.calls[1].op # "create"
       /\ probe.calls[2].op # "create"
       /\ probe.calls[1].key = probe.calls[2].key
       /\ probe.calls[1].id = probe.calls[2].id

\* the effect of the call is in the stored data: the created or updated
\* item it returned is among the items of its list, the deleted item it
\* returned is not; a call that returned null has no effect
EffectPresent(call) ==
  LET items == probe.db[call.key].items
  IN IF call.value = JsonNull THEN TRUE
     ELSE IF call.op = "delete" THEN \A k \in 1 .. Len(items) : items[k].id # call.id
     ELSE \E k \in 1 .. Len(items) : items[k] = call.value

\* C38: when two writes of the JSON adapter run at the same time, on one
\* list or on two, the effects of both are in the stored data once both
\* have completed
C38_NoWriteLost ==
  BothCompleted => \A i \in 1 .. 2 : EffectPresent(probe.calls[i])

\* the same for two writes of which one starts when the other has returned
C38_NoWriteLostInTurn ==
  (BothCompleted /\ ~probe.overlapped) => \A i \in 1 .. 2 : EffectPresent(probe.calls[i])

\* two writes on two different lists overlapped, and the item one of them
\* created is not in the stored data
C38_Witness ==
  /\ BothCompleted
  /\ probe.overlapped
  /\ probe.calls[1].key # probe.calls[2].key
  /\ probe.calls[1].op = "create"
  /\ probe.calls[1].wrote
  /\ ~EffectPresent(probe.calls[1])

====
